---- MODULE Spec2Model ----
(***************************************************************************)
(* A model of the job vector store (Scraping/adzuna_vector_store.py) and   *)
(* of the duplicate removal and the search endpoint of the REST API        *)
(* (Scraping/api.py).                                                      *)
(*                                                                         *)
(* Python strings are sequences of one-character strings, Python dicts are *)
(* functions whose domain is the set of keys that are present, Python      *)
(* lists are sequences (position p of a list is element p + 1 here).       *)
(***************************************************************************)
EXTENDS Integers, Sequences, FiniteSets, TLC

VARIABLES
    index,        \* JobVectorStore.index: the vectors of the FAISS index, in order
    jobs,         \* JobVectorStore.jobs
    job_ids_map,  \* JobVectorStore.job_ids_map: index position -> position in jobs
    index_file,   \* the artifact <base>.index on disk
    data_file,    \* the artifact <base>.pkl on disk
    call,         \* the last call made and its arguments
    ret,          \* what that call returned
    path          \* the return statement that call left by

vars == <<index, jobs, job_ids_map, index_file, data_file, call, ret, path>>

store == <<index, jobs, job_ids_map>>
disk == <<index_file, data_file>>

-----------------------------------------------------------------------------
(* Bounds of the model.                                                    *)

MaxJobs == 3          \* records in the store, Spec
MaxBatch == 2         \* records in one batch, Spec
MaxSearchJobs == 3    \* records in the store, SpecSearch
MaxK == 2             \* largest k asked of a search
MaxPersistJobs == 2   \* records in the store, SpecPersist
MaxPersistBatch == 1  \* records in one batch, SpecPersist
MaxScanJobs == 6      \* records in the store, SpecScan
MaxScanK == 1         \* largest k asked of a search, SpecScan
MaxLen == 4           \* records in a list given to the duplicate removal
MaxMinResults == 3    \* largest min_results given to the duplicate removal
MaxPipelineJobs == 3  \* records in the store, SpecPipeline
MaxPipelineBatch == 1 \* records in one batch, SpecPipeline
MaxLimit == 2         \* largest limit of a request

-----------------------------------------------------------------------------
(* Python strings, dicts and lists.                                        *)

\* dict.get(key, default)
Get(d, key, default) == IF key \in DOMAIN d THEN d[key] ELSE default

\* d[key] = value
SetKey(d, key, value) ==
    [x \in (DOMAIN d) \cup {key} |-> IF x = key THEN value ELSE d[x]]

\* str.lower() of one character
LowerChar(c) ==
    LET upper == <<"A", "B", "C", "D", "E", "F", "G", "H", "I", "J", "K", "L", "M",
                   "N", "O", "P", "Q", "R", "S", "T", "U", "V", "W", "X", "Y", "Z">>
        lower == <<"a", "b", "c", "d", "e", "f", "g", "h", "i", "j", "k", "l", "m",
                   "n", "o", "p", "q", "r", "s", "t", "u", "v", "w", "x", "y", "z">>
    IN IF \E i \in 1..26 : upper[i] = c
       THEN lower[CHOOSE i \in 1..26 : upper[i] = c]
       ELSE c

Lower(s) == [i \in 1..Len(s) |-> LowerChar(s[i])]

\* t in s, for two strings
Contains(s, t) ==
    \E i \in 0..(Len(s) - Len(t)) : SubSeq(s, i + 1, i + Len(t)) = t

\* str.split(): the maximal runs of non-blank characters
RECURSIVE SplitFrom(_, _, _)
SplitFrom(s, i, word) ==
    IF i > Len(s)
    THEN IF word = <<>> THEN <<>> ELSE <<word>>
    ELSE IF s[i] = " "
         THEN (IF word = <<>> THEN <<>> ELSE <<word>>) \o SplitFrom(s, i + 1, <<>>)
         ELSE SplitFrom(s, i + 1, Append(word, s[i]))

Split(s) == SplitFrom(s, 1, <<>>)

\* " ".join(words)
RECURSIVE Join(_)
Join(words) ==
    IF words = <<>> THEN <<>>
    ELSE IF Len(words) = 1 THEN words[1]
    ELSE words[1] \o <<" ">> \o Join(Tail(words))

\* list[:n] for n >= 0
Take(s, n) == SubSeq(s, 1, IF n < Len(s) THEN n ELSE Len(s))

Min(a, b) == IF a <= b THEN a ELSE b
Max(a, b) == IF a >= b THEN a ELSE b

-----------------------------------------------------------------------------
(* The records the model draws its inputs from.                            *)

JobA == [id |-> <<"1">>,
         title |-> <<"d", "e", "v">>,
         company |-> <<"a", "c">>,
         location |-> <<"r", "a", "b", "a", "t">>,
         description |-> <<"c", "d", "i">>,
         redirect_url |-> <<"u", "1">>]

\* a duplicate of JobA by title and company; remote by its location
JobB == [id |-> <<"2">>,
         title |-> <<"D", "e", "v">>,
         company |-> <<"A", "C">>,
         location |-> <<"R", "e", "m", "o", "t", "e">>,
         description |-> <<>>,
         redirect_url |-> <<"u", "2">>]

\* no company; remote by its flag
JobC == [id |-> <<"3">>,
         title |-> <<"o", "p", "s">>,
         location |-> <<>>,
         description |-> <<"d", "e", "v", " ", "o", "p", "s">>,
         remote_friendly |-> TRUE]

\* neither remote nor relevant to the region
JobD == [id |-> <<"4">>,
         title |-> <<"m", "l">>,
         company |-> <<"b">>,
         location |-> <<"o", "s", "l", "o">>,
         description |-> <<"m", "l", " ", "o", "p", "s">>,
         remote_friendly |-> FALSE]

Pool == {JobA, JobB, JobD}

Queries == {<<>>,
            <<"x">>,
            <<"d", "e", "v">>,
            <<"d", "e", "v", " ", "m", "l">>}

\* the sequences over S of length 0..n
SeqsUpTo(S, n) == UNION {[1..m -> S] : m \in 0..n}

-----------------------------------------------------------------------------
(* The embedding provider.                                                 *)

Vowels == {"a", "e", "i", "o", "u"}

\* SentenceTransformer.encode: a fixed function of the text
Embed(text) ==
    <<Cardinality({i \in 1..Len(text) : text[i] \in Vowels}), Len(text)>>

\* the text _create_job_vector embeds
CanonicalText(job) ==
    <<"Title: ">> \o Get(job, "title", <<>>) \o <<" ">>
    \o <<"Company: ">> \o Get(job, "company", <<>>) \o <<" ">>
    \o <<"Location: ">> \o Get(job, "location", <<>>) \o <<" ">>
    \o <<"Description: ">> \o Get(job, "description", <<>>)

\* _create_job_vector, when the provider answers
CreateJobVector(job) == Embed(CanonicalText(job))

-----------------------------------------------------------------------------
(* add_jobs_from_dataframe                                                 *)

\* AddLoop with the position map extended before the embedding is
\* requested, so that a failed record still takes a position
RECURSIVE AddLoopMapFirst(_, _, _, _, _)
AddLoopMapFirst(batch, ok, i, current_index, st) ==
    IF i > Len(batch) THEN st
    ELSE LET map == SetKey(st.map, current_index + st.added,
                           current_index + st.added)
         IN IF ok[i]
            THEN AddLoopMapFirst(batch, ok, i + 1, current_index,
                     [vectors |-> Append(st.vectors, CreateJobVector(batch[i])),
                      valid_jobs |-> Append(st.valid_jobs, batch[i]),
                      map |-> map,
                      added |-> st.added + 1])
            ELSE AddLoopMapFirst(batch, ok, i + 1, current_index,
                     [st EXCEPT !.map = map, !.added = st.added + 1])

\* AddLoop with a failed embedding ending the batch
RECURSIVE AddLoopAbort(_, _, _, _, _)
AddLoopAbort(batch, ok, i, current_index, st) ==
    IF i > Len(batch) THEN st
    ELSE IF ok[i]
         THEN AddLoopAbort(batch, ok, i + 1, current_index,
                  [vectors |-> Append(st.vectors, CreateJobVector(batch[i])),
                   valid_jobs |-> Append(st.valid_jobs, batch[i]),
                   map |-> SetKey(st.map, current_index + st.added,
                                  current_index + st.added),
                   added |-> st.added + 1])
         ELSE st

\* The loop over the batch: ok[i] says whether the embedding of record i
\* succeeds. st = [vectors, valid_jobs, map, added].
RECURSIVE AddLoop(_, _, _, _, _)
AddLoop(batch, ok, i, current_index, st) ==
    IF i > Len(batch) THEN st
    ELSE IF ok[i]
         THEN AddLoop(batch, ok, i + 1, current_index,
                      [vectors |-> Append(st.vectors, CreateJobVector(batch[i])),
                       valid_jobs |-> Append(st.valid_jobs, batch[i]),
                       map |-> SetKey(st.map, current_index + st.added,
                                      current_index + st.added),
                       added |-> st.added + 1])
         ELSE AddLoop(batch, ok, i + 1, current_index, st)

AddJobsFromDataframe(batch, ok) ==
    LET current_index == Len(jobs)
        st == AddLoop(batch, ok, 1, current_index,
                      [vectors |-> <<>>, valid_jobs |-> <<>>,
                       map |-> job_ids_map, added |-> 0])
    IN /\ job_ids_map' = st.map
       /\ index' = IF st.added > 0 THEN index \o st.vectors ELSE index
       /\ jobs' = IF st.added > 0 THEN jobs \o st.valid_jobs ELSE jobs
       /\ call' = [op |-> "add_batch", batch |-> batch, ok |-> ok]
       /\ ret' = st.added
       /\ path' = "return"
       /\ UNCHANGED disk

-----------------------------------------------------------------------------
(* The filter functions of the filtered searches. A filter is a record     *)
(* whose kind names the Python closure; "none" is filter_fn = None.        *)

NoFilter == [kind |-> "none"]
RemoteFilterTag == [kind |-> "remote"]
MoroccoFilterTag == [kind |-> "morocco"]
KeywordFilterTag(keywords, require_all) ==
    [kind |-> "keyword", keywords |-> keywords, require_all |-> require_all]

S_remote == <<"r", "e", "m", "o", "t", "e">>

MoroccoTerms == {<<"m", "o", "r", "o", "c", "c", "o">>,
                 <<"m", "a", "r", "o", "c">>,
                 <<"r", "a", "b", "a", "t">>,
                 <<"c", "a", "s", "a", "b", "l", "a", "n", "c", "a">>,
                 <<"t", "a", "n", "g", "e", "r">>,
                 <<"f", "e", "s">>}

\* search_remote_jobs.remote_filter
RemoteFilter(job) ==
    \/ Get(job, "remote_friendly", FALSE)
    \/ Contains(Lower(Get(job, "location", <<>>)), S_remote)

\* search_morocco_relevant.morocco_filter
MoroccoFilter(job) ==
    LET text == Lower(Get(job, "title", <<>>) \o <<" ">>
                      \o Get(job, "location", <<>>) \o <<" ">>
                      \o Get(job, "description", <<>>))
        is_remote == Get(job, "remote_friendly", FALSE) \/ Contains(text, S_remote)
        is_international == Get(job, "international", FALSE)
        mentions_morocco == \E term \in MoroccoTerms : Contains(text, term)
    IN is_remote \/ is_international \/ mentions_morocco

\* search_by_keywords.keyword_filter
KeywordFilter(job, keywords, require_all) ==
    LET text == Lower(Get(job, "title", <<>>) \o <<" ">>
                      \o Get(job, "description", <<>>))
    IN IF require_all
       THEN \A i \in 1..Len(keywords) : Contains(text, Lower(keywords[i]))
       ELSE \E i \in 1..Len(keywords) : Contains(text, Lower(keywords[i]))

\* filter_fn(job), for a filter_fn that is not None
FilterFn(filter, job) ==
    CASE filter.kind = "remote" -> RemoteFilter(job)
      [] filter.kind = "morocco" -> MoroccoFilter(job)
      [] filter.kind = "keyword" ->
             KeywordFilter(job, filter.keywords, filter.require_all)

-----------------------------------------------------------------------------
(* Similarity scores are fractions <<numerator, denominator>>.             *)

ScoreGE(a, b) == a[1] * b[2] >= b[1] * a[2]
ScoreGT(a, b) == a[1] * b[2] > b[1] * a[2]

\* the score of a last-resort result: 0.1
RandomScore == <<1, 10>>

-----------------------------------------------------------------------------
(* The FAISS index (IndexFlatL2): exact search by squared L2 distance.     *)

Dist(u, v) == (u[1] - v[1]) * (u[1] - v[1]) + (u[2] - v[2]) * (u[2] - v[2])

\* IndexSearch without the ordering by distance: the first K positions
IndexSearchUnsorted(vectors, query_vector, K) ==
    LET n == Len(vectors)
    IN [r \in 1..K |->
           IF r <= n
           THEN [dist |-> Dist(vectors[r], query_vector), idx |-> r - 1]
           ELSE [dist |-> 0, idx |-> -1]]

\* faiss.IndexFlatL2.search for K >= 1: the K nearest positions, nearest
\* first (equal distances by position), padded with idx = -1 when the
\* index holds fewer than K vectors; the distance of a padding entry is
\* never read.
IndexSearch(vectors, query_vector, K) ==
    LET n == Len(vectors)
        d(p) == Dist(vectors[p + 1], query_vector)
        before(p, q) == d(p) < d(q) \/ (d(p) = d(q) /\ p < q)
        rank(p) == Cardinality({q \in 0..(n - 1) : before(q, p)})
        hit(r) == IF r <= n
                  THEN LET p == CHOOSE p \in 0..(n - 1) : rank(p) = r - 1
                       IN [dist |-> d(p), idx |-> p]
                  ELSE [dist |-> 0, idx |-> -1]
    IN [r \in 1..K |-> hit(r)]

-----------------------------------------------------------------------------
(* _fallback_search                                                        *)

\* the jobs scored by the keyword scorer, in store order
RECURSIVE ScoredJobs(_, _, _, _)
ScoredJobs(js, i, query_terms, filter) ==
    IF i > Len(js) THEN <<>>
    ELSE LET job == js[i]
             job_text == Lower(Get(job, "title", <<>>) \o <<" ">>
                               \o Get(job, "company", <<>>) \o <<" ">>
                               \o Get(job, "description", <<>>))
             match_score ==
                 Cardinality({t \in 1..Len(query_terms) :
                                 Contains(job_text, query_terms[t])})
             rest == ScoredJobs(js, i + 1, query_terms, filter)
         IN IF filter.kind # "none" /\ ~FilterFn(filter, job) THEN rest
            ELSE IF match_score > 0 \/ query_terms = <<>>
                 THEN <<SetKey(job, "similarity_score",
                               <<match_score, Max(1, Len(query_terms))>>)>> \o rest
                 ELSE rest

\* list.sort(key = similarity_score, reverse = True): stable, so equal
\* scores keep their order
SortByScore(scored) ==
    LET n == Len(scored)
        sc(i) == scored[i]["similarity_score"]
        before(i, j) == ScoreGT(sc(i), sc(j)) \/ (~ScoreGT(sc(j), sc(i)) /\ i < j)
        rank(i) == Cardinality({j \in 1..n : before(j, i)})
    IN [r \in 1..n |-> scored[CHOOSE i \in 1..n : rank(i) = r - 1]]

\* the outcomes of random.sample(self.jobs, m): m distinct positions
RandomSamples(n, m) ==
    {s \in [1..m -> 1..n] : \A a, b \in 1..m : a # b => s[a] # s[b]}

\* Slice without the cut
SliceWhole(s, k) == s

\* list[:k], k of either sign
Slice(s, k) ==
    IF k >= 0 THEN Take(s, k) ELSE Take(s, Max(0, Len(s) + k))

\* FallbackSearch without the last resort
FallbackSearchNoLastResort(self, query, k, filter, rnd) ==
    LET query_terms == Split(Lower(query))
        scored_jobs == SortByScore(ScoredJobs(self.jobs, 1, query_terms, filter))
    IN [results |-> Slice(scored_jobs, k), path |-> "keyword"]

\* rnd is the outcome of random.sample, read only on the last resort
FallbackSearch(self, query, k, filter, rnd) ==
    LET query_terms == Split(Lower(query))
        scored_jobs == SortByScore(ScoredJobs(self.jobs, 1, query_terms, filter))
        random_jobs ==
            [i \in 1..Len(rnd) |->
                SetKey(self.jobs[rnd[i]], "similarity_score", RandomScore)]
    IN IF scored_jobs = <<>>
       THEN [results |-> Slice(random_jobs, k), path |-> "random"]
       ELSE [results |-> Slice(scored_jobs, k), path |-> "keyword"]

-----------------------------------------------------------------------------
(* search_similar_jobs                                                     *)

\* the loop over the hits of the index, from hit i on
RECURSIVE ScanHits(_, _, _, _, _, _)
ScanHits(self, hits, i, k, filter, results) ==
    IF i > Len(hits) THEN results
    ELSE LET dist == hits[i].dist
             idx == hits[i].idx
             next == ScanHits(self, hits, i + 1, k, filter, results)
         IN IF idx < 0 \/ idx >= Len(self.jobs) THEN next
            ELSE LET job_id == Get(self.job_ids_map, idx, -1)
                 IN IF job_id = -1 \/ job_id >= Len(self.jobs) THEN next
                    ELSE LET job == SetKey(self.jobs[job_id + 1],
                                           "similarity_score", <<1, 1 + dist>>)
                         IN IF filter.kind # "none" /\ ~FilterFn(filter, job)
                            THEN next
                            ELSE IF Len(results) + 1 >= k
                                 THEN Append(results, job)
                                 ELSE ScanHits(self, hits, i + 1, k, filter,
                                               Append(results, job))

\* SearchWidth without the wider scan of a filtered search
SearchWidthK(self, k, filter) == k

\* how many neighbours the index is asked for
SearchWidth(self, k, filter) ==
    IF filter.kind = "none" THEN k ELSE Min(k * 5, Len(self.jobs))

\* SearchSimilarJobs returning the empty scan instead of falling back
SearchSimilarJobsNoFallback(self, query, k, filter, embed_ok, rnd) ==
    IF self.jobs = <<>> THEN [results |-> <<>>, path |-> "empty"]
    ELSE IF ~embed_ok \/ SearchWidth(self, k, filter) < 1
         THEN FallbackSearch(self, query, k, filter, rnd)
         ELSE LET hits == IndexSearch(self.index, Embed(query),
                                      SearchWidth(self, k, filter))
              IN [results |-> ScanHits(self, hits, 1, k, filter, <<>>),
                  path |-> "vector"]

\* embed_ok: the embedding of the query succeeds. The index refuses a
\* width below 1 with an exception, which the handler catches like a
\* failed embedding.
SearchSimilarJobs(self, query, k, filter, embed_ok, rnd) ==
    IF self.jobs = <<>> THEN [results |-> <<>>, path |-> "empty"]
    ELSE IF ~embed_ok \/ SearchWidth(self, k, filter) < 1
         THEN FallbackSearch(self, query, k, filter, rnd)
         ELSE LET hits == IndexSearch(self.index, Embed(query),
                                      SearchWidth(self, k, filter))
                  results == ScanHits(self, hits, 1, k, filter, <<>>)
              IN IF results # <<>>
                 THEN [results |-> results, path |-> "vector"]
                 ELSE FallbackSearch(self, query, k, filter, rnd)

-----------------------------------------------------------------------------
(* The artifacts of a snapshot: missing, readable or unreadable.           *)

NoFile == [state |-> "missing", content |-> <<>>]

\* JobVectorStore.__init__
Init ==
    /\ index = <<>>
    /\ jobs = <<>>
    /\ job_ids_map = <<>>
    /\ index_file = NoFile
    /\ data_file = NoFile
    /\ call = [op |-> "init"]
    /\ ret = 0
    /\ path = "return"

\* A read leaves the store and the disk as they are: the calls that follow
\* a read reach the states the same calls reach without it. Calls are
\* therefore taken from the states a write (or the construction) left.
Settled == call.op \in {"init", "add_batch", "save", "load", "new_load"}

\* add_jobs_from_dataframe on a batch of at most maxBatch records of pool,
\* each embedding succeeding or failing, while the record store and the
\* index stay within maxJobs entries
AddBatchWithin(pool, maxBatch, maxJobs) ==
    /\ Settled
    /\ \E batch \in SeqsUpTo(pool, maxBatch) :
         \E ok \in [1..Len(batch) -> BOOLEAN] :
             /\ Len(jobs) + Cardinality({i \in 1..Len(batch) : ok[i]}) <= maxJobs
             /\ Len(index) + Cardinality({i \in 1..Len(batch) : ok[i]}) <= maxJobs
             /\ AddJobsFromDataframe(batch, ok)

\* the store that add_jobs_from_dataframe builds from the records of one
\* batch on a new store, every embedding succeeding
BuiltFrom(pool, maxJobs) ==
    \E records \in SeqsUpTo(pool, maxJobs) :
        LET ok == [i \in 1..Len(records) |-> TRUE]
            st == AddLoop(records, ok, 1, 0,
                          [vectors |-> <<>>, valid_jobs |-> <<>>,
                           map |-> <<>>, added |-> 0])
        IN /\ index = st.vectors
           /\ jobs = st.valid_jobs
           /\ job_ids_map = st.map
           /\ index_file = NoFile
           /\ data_file = NoFile
           /\ call = [op |-> "add_batch", batch |-> records, ok |-> ok]
           /\ ret = st.added
           /\ path = "return"

\* the records of the batches of Spec
BatchPool == {JobA, JobD}

AddBatch == AddBatchWithin(BatchPool, MaxBatch, MaxJobs)

Next == AddBatch

\* the store under ingestion alone
Spec == Init /\ [][Next]_vars

\* the store as the methods of JobVectorStore see it
Self == [index |-> index, jobs |-> jobs, job_ids_map |-> job_ids_map]

\* random.sample is called on the last resort only
SamplesFor(self, query, k, filter, embed_ok) ==
    IF SearchSimilarJobs(self, query, k, filter, embed_ok, <<>>).path = "random"
    THEN RandomSamples(Len(self.jobs), Min(k, Len(self.jobs)))
    ELSE {<<>>}

\* a search through one of the entry points of the store
SearchCall(op, query, k, filter) ==
    /\ Settled
    /\ \E embed_ok \in BOOLEAN :
         \E rnd \in SamplesFor(Self, query, k, filter, embed_ok) :
             LET r == SearchSimilarJobs(Self, query, k, filter, embed_ok, rnd)
             IN /\ call' = [op |-> op, query |-> query, k |-> k,
                            filter |-> filter, embed_ok |-> embed_ok]
                /\ ret' = r.results
                /\ path' = r.path
                /\ UNCHANGED <<store, disk>>

KeywordLists == {<<>>,
                 <<<<"x">>>>,
                 <<<<"D", "e", "v">>>>,
                 <<<<"d", "e", "v">>, <<"m", "l">>>>}

\* search_similar_jobs without a filter
SearchSimilar ==
    \E query \in Queries, k \in 0..MaxK :
        SearchCall("search_similar_jobs", query, k, NoFilter)

SearchRemoteJobs ==
    \E query \in Queries, k \in 0..MaxK :
        SearchCall("search_remote_jobs", query, k, RemoteFilterTag)

SearchMoroccoRelevant ==
    \E query \in Queries, k \in 0..MaxK :
        SearchCall("search_morocco_relevant", query, k, MoroccoFilterTag)

SearchByKeywords ==
    \E keywords \in KeywordLists, k \in 0..MaxK, require_all \in BOOLEAN :
        SearchCall("search_by_keywords", Join(keywords), k,
                   KeywordFilterTag(keywords, require_all))

SearchInit == BuiltFrom(Pool, MaxSearchJobs)

SearchNext ==
    \/ SearchSimilar
    \/ SearchRemoteJobs
    \/ SearchMoroccoRelevant
    \/ SearchByKeywords

\* the searches of a store
SpecSearch == SearchInit /\ [][SearchNext]_vars

-----------------------------------------------------------------------------
(* The filtered scan on stores that hold more records than the scan is     *)
(* wide.                                                                   *)

ScanPool == {JobB, JobD}

ScanInit == BuiltFrom(ScanPool, MaxScanJobs)

ScanSearchRemoteJobs ==
    \E k \in 1..MaxScanK :
        SearchCall("search_remote_jobs", <<"d", "e", "v">>, k, RemoteFilterTag)

ScanSearchByKeywords ==
    \E keywords \in {<<<<"m", "l">>>>, <<<<"D", "e", "v">>>>},
       k \in 1..MaxScanK :
        SearchCall("search_by_keywords", Join(keywords), k,
                   KeywordFilterTag(keywords, FALSE))

ScanNext ==
    \/ ScanSearchRemoteJobs
    \/ ScanSearchByKeywords

\* the filtered searches of a larger store
SpecScan == ScanInit /\ [][ScanNext]_vars

-----------------------------------------------------------------------------
(* save and load. An artifact is missing, readable ("ok") or unreadable    *)
(* ("corrupt": a write that an I/O error cut short).                       *)

Readable(content) == [state |-> "ok", content |-> content]
Unreadable == [state |-> "corrupt", content |-> <<>>]

\* self.vector_dim, the length of the vectors of Embed
VectorDim == 2

\* WriteIndex storing the vectors one place late
WriteIndexShifted(vectors) ==
    [d |-> VectorDim,
     ntotal |-> Len(vectors),
     xb |-> [c \in 1..(VectorDim * Len(vectors)) |->
                IF c = 1 THEN 0
                ELSE vectors[((c - 2) \div VectorDim) + 1]
                            [((c - 2) % VectorDim) + 1]]]

\* faiss.write_index of a flat index: the dimension, the number of vectors
\* and the vectors laid end to end
WriteIndex(vectors) ==
    [d |-> VectorDim,
     ntotal |-> Len(vectors),
     xb |-> [c \in 1..(VectorDim * Len(vectors)) |->
                vectors[((c - 1) \div VectorDim) + 1]
                       [((c - 1) % VectorDim) + 1]]]

\* faiss.read_index: the vectors cut back out of the stored run
ReadIndex(content) ==
    [i \in 1..content.ntotal |->
        [c \in 1..content.d |-> content.xb[(i - 1) * content.d + c]]]

\* pickle.dump of the tuple (self.jobs, self.job_ids_map)
PickleDump(self) == <<self.jobs, self.job_ids_map>>

\* pickle.load, unpacked into self.jobs, self.job_ids_map
PickleLoad(content) == [jobs |-> content[1], job_ids_map |-> content[2]]

\* save: fails_at names the write that raises, "none" when both succeed.
\* faiss.write_index writes the index artifact, then open(.., 'wb') and
\* pickle.dump write the data artifact; a write that raises leaves its
\* artifact as it was (cut is false: the file could not be opened) or
\* unreadable (cut is true: it was opened, and truncated, before the error).
SaveStore(fails_at, cut) ==
    /\ index_file' = CASE fails_at = "index" ->
                              IF cut THEN Unreadable ELSE index_file
                       [] OTHER -> Readable(WriteIndex(index))
    /\ data_file' = CASE fails_at = "index" -> data_file
                      [] fails_at = "data" ->
                              IF cut THEN Unreadable ELSE data_file
                      [] OTHER -> Readable(PickleDump([jobs |-> jobs,
                                             job_ids_map |-> job_ids_map]))
    /\ call' = [op |-> "save", fails_at |-> fails_at, cut |-> cut]
    /\ ret' = (fails_at = "none")
    /\ path' = "return"
    /\ UNCHANGED store

\* load
LoadStore ==
    /\ call' = [op |-> "load"]
    /\ path' = "return"
    /\ UNCHANGED disk
    /\ IF index_file.state = "missing" \/ data_file.state = "missing"
       THEN /\ ret' = FALSE
            /\ UNCHANGED store
       ELSE IF index_file.state = "corrupt"
       THEN \* faiss.read_index raises
            /\ ret' = FALSE
            /\ UNCHANGED store
       ELSE IF data_file.state = "corrupt"
       THEN \* pickle.load raises after self.index was assigned
            /\ index' = ReadIndex(index_file.content)
            /\ ret' = FALSE
            /\ UNCHANGED <<jobs, job_ids_map>>
       ELSE /\ index' = ReadIndex(index_file.content)
            /\ jobs' = PickleLoad(data_file.content).jobs
            /\ job_ids_map' = PickleLoad(data_file.content).job_ids_map
            /\ ret' = TRUE

\* JobVectorStore(): the store a new process constructs
NewStore == [index |-> <<>>, jobs |-> <<>>, job_ids_map |-> <<>>]

\* JobVectorStore().load(): load into a store just constructed, which
\* takes the place of the one in memory
LoadNewStore ==
    /\ call' = [op |-> "new_load"]
    /\ path' = "return"
    /\ UNCHANGED disk
    /\ IF index_file.state = "missing" \/ data_file.state = "missing"
          \/ index_file.state = "corrupt"
       THEN /\ index' = NewStore.index
            /\ jobs' = NewStore.jobs
            /\ job_ids_map' = NewStore.job_ids_map
            /\ ret' = FALSE
       ELSE IF data_file.state = "corrupt"
       THEN /\ index' = ReadIndex(index_file.content)
            /\ jobs' = NewStore.jobs
            /\ job_ids_map' = NewStore.job_ids_map
            /\ ret' = FALSE
       ELSE /\ index' = ReadIndex(index_file.content)
            /\ jobs' = PickleLoad(data_file.content).jobs
            /\ job_ids_map' = PickleLoad(data_file.content).job_ids_map
            /\ ret' = TRUE

PersistPool == {JobA, JobB}

PersistAddBatch == AddBatchWithin(PersistPool, MaxPersistBatch, MaxPersistJobs)

Save ==
    /\ Settled
    /\ \E fails_at \in {"none", "index", "data"}, cut \in BOOLEAN :
          /\ (fails_at = "none" => ~cut)
          /\ SaveStore(fails_at, cut)

Load == Settled /\ LoadStore

LoadNew == Settled /\ LoadNewStore

PersistNext ==
    \/ PersistAddBatch
    \/ Save
    \/ Load
    \/ LoadNew

\* ingestion and the snapshots of the store
SpecPersist == Init /\ [][PersistNext]_vars

-----------------------------------------------------------------------------
(* difflib.SequenceMatcher(None, a, b).ratio(), as a fraction.             *)

\* the length of the common run of a from i + 1 and b from j + 1, within
\* a[..ahi] and b[..bhi]
RECURSIVE RunLength(_, _, _, _, _, _)
RunLength(a, b, i, j, ahi, bhi) ==
    IF i < ahi /\ j < bhi /\ a[i + 1] = b[j + 1]
    THEN 1 + RunLength(a, b, i + 1, j + 1, ahi, bhi)
    ELSE 0

\* the block of find_longest_match among the starts of a common run, size
\* giving the length of the run at each start: the longest one, starting
\* earliest in a and, among those, earliest in b; <<alo, blo, 0>> when none
LongestBlock(starts, size, alo, blo) ==
    LET longest == {st \in starts :
                       /\ size[st] > 0
                       /\ \A other \in starts : size[other] <= size[st]}
        first == CHOOSE st \in longest :
                     \A other \in longest :
                         \/ st[1] < other[1]
                         \/ (st[1] = other[1] /\ st[2] <= other[2])
    IN IF longest = {} THEN <<alo, blo, 0>>
       ELSE <<first[1], first[2], size[first]>>

\* find_longest_match(alo, ahi, blo, bhi): <<i, j, size>> of the longest
\* matching block of a[alo:ahi] and b[blo:bhi]
FindLongestMatch(a, b, alo, ahi, blo, bhi) ==
    LongestBlock((alo..(ahi - 1)) \X (blo..(bhi - 1)),
                 [st \in (alo..(ahi - 1)) \X (blo..(bhi - 1)) |->
                     RunLength(a, b, st[1], st[2], ahi, bhi)],
                 alo, blo)

\* the total size of the matching blocks of get_matching_blocks: the
\* longest block m, then the blocks to its left and to its right
RECURSIVE MatchingSize(_, _, _, _, _, _)
BlocksAround(a, b, alo, ahi, blo, bhi, m) ==
    IF m[3] = 0 THEN 0
    ELSE m[3]
         + (IF alo < m[1] /\ blo < m[2]
            THEN MatchingSize(a, b, alo, m[1], blo, m[2]) ELSE 0)
         + (IF m[1] + m[3] < ahi /\ m[2] + m[3] < bhi
            THEN MatchingSize(a, b, m[1] + m[3], ahi, m[2] + m[3], bhi)
            ELSE 0)

MatchingSize(a, b, alo, ahi, blo, bhi) ==
    BlocksAround(a, b, alo, ahi, blo, bhi,
                 FindLongestMatch(a, b, alo, ahi, blo, bhi))

\* ratio(): 2.0 * matches / (len(a) + len(b)), 1.0 for two empty strings
SequenceRatio(a, b) ==
    IF Len(a) + Len(b) = 0 THEN <<1, 1>>
    ELSE <<2 * MatchingSize(a, b, 0, Len(a), 0, Len(b)), Len(a) + Len(b)>>

-----------------------------------------------------------------------------
(* is_duplicate_job and remove_duplicate_jobs                              *)

\* the default title_threshold and company_threshold: 0.95
TitleThreshold == <<95, 100>>
CompanyThreshold == <<95, 100>>

\* str(job.get(key, '')).lower() if job.get(key) is not None else ''
LowerField(job, key) == Lower(Get(job, key, <<>>))

\* the verdict of is_duplicate_job on two jobs that both have a title and
\* a company
SameJob(title_ratio, company_ratio, url1, url2, location1, location2) ==
    IF url1 # <<>> /\ url2 # <<>> /\ url1 = url2 THEN TRUE
    ELSE \/ /\ ScoreGE(title_ratio, TitleThreshold)
            /\ ScoreGE(company_ratio, CompanyThreshold)
         \/ /\ title_ratio[1] = title_ratio[2]
            /\ location1 = location2 /\ location1 # <<>>

IsDuplicateJob(job1, job2) ==
    IF \/ LowerField(job1, "title") = <<>>
       \/ LowerField(job2, "title") = <<>>
       \/ LowerField(job1, "company") = <<>>
       \/ LowerField(job2, "company") = <<>>
    THEN FALSE
    ELSE SameJob(SequenceRatio(LowerField(job1, "title"),
                               LowerField(job2, "title")),
                 SequenceRatio(LowerField(job1, "company"),
                               LowerField(job2, "company")),
                 LowerField(job1, "redirect_url"),
                 LowerField(job2, "redirect_url"),
                 LowerField(job1, "location"),
                 LowerField(job2, "location"))

\* x in list
InList(x, list) == \E i \in 1..Len(list) : list[i] = x

\* the loop that adds back the jobs that are not in unique_jobs, from
\* position i of jobs on
RECURSIVE AddBack(_, _, _, _)
AddBack(js, i, unique_jobs, min_results) ==
    IF i > Len(js) THEN unique_jobs
    ELSE IF ~InList(js[i], unique_jobs)
         THEN IF Len(unique_jobs) + 1 >= min_results
              THEN Append(unique_jobs, js[i])
              ELSE AddBack(js, i + 1, Append(unique_jobs, js[i]), min_results)
         ELSE AddBack(js, i + 1, unique_jobs, min_results)

\* the test made after each job of the loop: too few unique jobs and, in
\* tenths, len(jobs) - len(unique_jobs) > len(jobs) * 0.7
Readmit(js, unique_jobs, min_results) ==
    IF /\ Len(unique_jobs) < min_results
       /\ 10 * (Len(js) - Len(unique_jobs)) > 7 * Len(js)
    THEN AddBack(js, 1, unique_jobs, min_results)
    ELSE unique_jobs

\* DedupeLoop keeping the last of the duplicates instead of the first: a
\* job that is a duplicate takes the place of the jobs it duplicates
RECURSIVE DedupeLoopLastSeen(_, _, _, _)
DedupeLoopLastSeen(js, i, unique_jobs, min_results) ==
    IF i > Len(js) THEN unique_jobs
    ELSE DedupeLoopLastSeen(js, i + 1,
             Readmit(js,
                     Append(SelectSeq(unique_jobs,
                                LAMBDA e : ~IsDuplicateJob(js[i], e)),
                            js[i]),
                     min_results),
             min_results)

\* the loop over jobs, from position i on
RECURSIVE DedupeLoop(_, _, _, _)
DedupeLoop(js, i, unique_jobs, min_results) ==
    IF i > Len(js) THEN unique_jobs
    ELSE DedupeLoop(js, i + 1,
                    Readmit(js,
                            IF \E e \in 1..Len(unique_jobs) :
                                   IsDuplicateJob(js[i], unique_jobs[e])
                            THEN unique_jobs
                            ELSE Append(unique_jobs, js[i]),
                            min_results),
                    min_results)

\* RemoveDuplicateJobs without the return of short lists as they are
RemoveDuplicateJobsAlways(js, min_results) ==
    IF js = <<>> THEN <<>>
    ELSE DedupeLoop(js, 1, <<>>, min_results)

RemoveDuplicateJobs(js, min_results) ==
    IF js = <<>> THEN <<>>
    ELSE IF Len(js) <= min_results THEN js
    ELSE DedupeLoop(js, 1, <<>>, min_results)

-----------------------------------------------------------------------------
(* The duplicate removal as a function of its arguments.                   *)

\* same title and location as JobA, another company
JobE == [id |-> <<"5">>,
         title |-> <<"d", "e", "v">>,
         company |-> <<"b">>,
         location |-> <<"r", "a", "b", "a", "t">>]

\* the redirect URL of JobA, another title
JobF == [id |-> <<"6">>,
         title |-> <<"q", "a">>,
         company |-> <<"a", "c">>,
         redirect_url |-> <<"U", "1">>]

DedupePool == {JobA, JobB, JobC, JobD, JobF}

DedupeInit ==
    /\ index = <<>>
    /\ jobs = <<>>
    /\ job_ids_map = <<>>
    /\ index_file = NoFile
    /\ data_file = NoFile
    /\ \E js \in SeqsUpTo(DedupePool, MaxLen), min_results \in 0..MaxMinResults :
          call = [op |-> "arguments", jobs |-> js, min_results |-> min_results]
    /\ ret = <<>>
    /\ path = "return"

RemoveDuplicates ==
    /\ call.op = "arguments"
    /\ call' = [call EXCEPT !.op = "remove_duplicate_jobs"]
    /\ ret' = RemoveDuplicateJobs(call.jobs, call.min_results)
    /\ path' = "return"
    /\ UNCHANGED <<store, disk>>

DedupeNext == RemoveDuplicates

SpecDedupe == DedupeInit /\ [][DedupeNext]_vars

-----------------------------------------------------------------------------
(* is_duplicate_job as a function of its arguments.                        *)

\* a title of twenty characters
JobH == [id |-> <<"8">>,
         title |-> <<"s", "e", "n", "i", "o", "r", " ", "d", "a", "t", "a", " ", "e", "n", "g", "i", "n", "e", "e", "r">>,
         company |-> <<"a", "c">>,
         location |-> <<"f", "e", "s">>]

\* the title of JobH but for one character
JobI == [id |-> <<"9">>,
         title |-> <<"s", "e", "n", "i", "o", "r", " ", "d", "a", "t", "a", " ", "e", "n", "g", "i", "n", "x", "e", "r">>,
         company |-> <<"a", "c">>,
         location |-> <<"f", "e", "s">>]

\* the title of JobD but for one character of two
JobJ == [id |-> <<"10">>,
         title |-> <<"m", "d">>,
         company |-> <<"b">>,
         location |-> <<"o", "s", "l", "o">>]

\* the redirect URL of JobA, no company
JobK == [id |-> <<"11">>,
         title |-> <<"d", "e", "v">>,
         redirect_url |-> <<"u", "1">>]

\* the redirect URL of JobB, an empty title
JobL == [id |-> <<"12">>,
         title |-> <<>>,
         company |-> <<"a", "c">>,
         redirect_url |-> <<"u", "2">>]

DuplicatePool == {JobA, JobB, JobC, JobD, JobE, JobF, JobH, JobI, JobJ,
                  JobK, JobL}

DuplicateInit ==
    /\ index = <<>>
    /\ jobs = <<>>
    /\ job_ids_map = <<>>
    /\ index_file = NoFile
    /\ data_file = NoFile
    /\ \E job1, job2 \in DuplicatePool :
          call = [op |-> "arguments", job1 |-> job1, job2 |-> job2]
    /\ ret = FALSE
    /\ path = "return"

IsDuplicate ==
    /\ call.op = "arguments"
    /\ call' = [call EXCEPT !.op = "is_duplicate_job"]
    /\ ret' = IsDuplicateJob(call.job1, call.job2)
    /\ path' = "return"
    /\ UNCHANGED <<store, disk>>

DuplicateNext == IsDuplicate

SpecDuplicate == DuplicateInit /\ [][DuplicateNext]_vars

-----------------------------------------------------------------------------
(* search_jobs: one request through the retrieval pipeline of the API.     *)
(* A datetime is a number of hours since 2000-01-01 00:00. A date string   *)
(* is a record of its layout and of the instant it denotes; NoDate is the  *)
(* empty string.                                                           *)

\* datetime.datetime.now(), the same instant at each of its reads
Now == 240013
\* datetime.datetime(2000, 1, 1), the sort key of a job without a date
Y2000 == 0
\* datetime.datetime(1970, 1, 1), the date of a job without one at the
\* recency filter
Y1970 == -262968

NoDate == [fmt |-> "", ts |-> 0]

\* the layouts the handler tries, in its order
DateFormats == <<"%Y-%m-%d", "%Y-%m-%dT%H:%M:%S", "%Y-%m-%d %H:%M:%S">>

\* date.strftime('%Y-%m-%d'): the time of day is dropped
Strftime(date) == [fmt |-> "%Y-%m-%d", ts |-> date - (date % 24)]

\* the loop of strptime over DateFormats: the first layout that fits
ParseDate(posted_at) ==
    LET fits == {f \in 1..Len(DateFormats) : DateFormats[f] = posted_at.fmt}
    IN IF fits = {} THEN [parsed |-> FALSE, date |-> Y2000]
       ELSE [parsed |-> TRUE, date |-> posted_at.ts]

\* the draws of random.randint(0, 3), random.randint(0, 30) and
\* random.randint(0, 10) that are explored: the two ends of each range
JitterDays == {0, 3}
DefaultDays == {0, 30}
WidenDays == {0, 10}

\* a record with a creation date, a contract type, a salary and a category
JobG == [id |-> <<"7">>,
         title |-> <<"m", "l", " ", "d", "e", "v">>,
         company |-> <<"g">>,
         location |-> <<"F", "e", "s">>,
         description |-> <<"s", "t", "a", "g", "e">>,
         job_type |-> <<"C", "D", "D">>,
         salary_min |-> 5,
         category |-> <<"m", "l">>,
         created |-> [fmt |-> "%Y-%m-%dT%H:%M:%S", ts |-> 239990],
         redirect_url |-> <<"u", "7">>]

\* float('nan'), the value pandas gives a field that is missing in the data
NaN == <<"NaN">>

\* a record whose category is missing in the data
JobN == [id |-> <<"1", "3">>,
         title |-> <<"d", "b", "a">>,
         company |-> <<"n">>,
         location |-> <<"F", "e", "s">>,
         description |-> <<"c", "d", "d">>,
         category |-> NaN,
         redirect_url |-> <<"u", "1", "3">>]

\* the parameters of a request; min_salary and recent_hours are 0 when the
\* request has none
TrivialRequest(query, limit, remove_duplicates, sort_by_date) ==
    [query |-> query,
     location |-> <<>>,
     job_type |-> <<>>,
     min_salary |-> 0,
     remote |-> FALSE,
     morocco_only |-> FALSE,
     limit |-> limit,
     engineering_field |-> <<>>,
     remove_duplicates |-> remove_duplicates,
     sort_by_date |-> sort_by_date,
     recent_hours |-> 0]

\* an element of the working list: a copy of a record, or (ref > 0) the
\* record at position ref of vector_store.jobs itself
Copy(job) == [ref |-> 0, job |-> job]

\* vector_store.jobs[:k], the records themselves
StoreSlice(js, k) == [i \in 1..Min(k, Len(js)) |-> [ref |-> i, job |-> js[i]]]

\* vector_store.jobs after the writes made through the working list
WriteBack(js, cells) ==
    [p \in 1..Len(js) |->
        IF \E i \in 1..Len(cells) : cells[i].ref = p
        THEN cells[CHOOSE i \in 1..Len(cells) : cells[i].ref = p].job
        ELSE js[p]]

\* the result lists a search can return: the embedding succeeds or fails,
\* random.sample draws any sample
SearchOutcomes(self, query, k, filter) ==
    UNION {{SearchSimilarJobs(self, query, k, filter, embed_ok, rnd).results :
               rnd \in SamplesFor(self, query, k, filter, embed_ok)} :
           embed_ok \in BOOLEAN}

\* the contract types and their markers, in the order of the elif chain
ContractMarkers ==
    <<[job_type |-> <<"C", "D", "I">>,
       markers |-> {<<"c", "d", "i">>, <<"p", "e", "r", "m", "a", "n", "e", "n", "t">>, <<"i", "n", "d", "e", "t", "e", "r", "m", "i", "n", "é">>}],
      [job_type |-> <<"C", "D", "D">>,
       markers |-> {<<"c", "d", "d">>, <<"c", "o", "n", "t", "r", "a", "c", "t">>, <<"d", "é", "t", "e", "r", "m", "i", "n", "é">>}],
      [job_type |-> <<"S", "t", "a", "g", "e">>,
       markers |-> {<<"s", "t", "a", "g", "e">>, <<"i", "n", "t", "e", "r", "n", "s", "h", "i", "p">>, <<"s", "t", "a", "g", "i", "a", "i", "r", "e">>}],
      [job_type |-> <<"F", "r", "e", "e", "l", "a", "n", "c", "e">>,
       markers |-> {<<"f", "r", "e", "e", "l", "a", "n", "c", "e">>, <<"i", "n", "d", "e", "p", "e", "n", "d", "e", "n", "t">>, <<"i", "n", "d", "é", "p", "e", "n", "d", "a", "n", "t">>}],
      [job_type |-> <<"P", "a", "r", "t", "-", "t", "i", "m", "e">>,
       markers |-> {<<"t", "e", "m", "p", "s", " ", "p", "a", "r", "t", "i", "e", "l">>, <<"p", "a", "r", "t", " ", "t", "i", "m", "e">>, <<"p", "a", "r", "t", "-", "t", "i", "m", "e">>}]>>

InferJobType(job) ==
    LET desc == Lower(Get(job, "description", <<>>))
        hit == {t \in 1..Len(ContractMarkers) :
                   \E m \in ContractMarkers[t].markers : Contains(desc, m)}
    IN IF hit = {} THEN <<"C", "D", "I">>
       ELSE ContractMarkers[CHOOSE t \in hit : \A u \in hit : t <= u].job_type

\* the body of the enrichment loop
Enrich(job) ==
    IF Get(job, "job_type", <<>>) = <<>>
    THEN SetKey(job, "job_type", InferJobType(job))
    ELSE job

\* the search of the request by its flags
FirstFilter(req) ==
    IF req.morocco_only THEN MoroccoFilterTag
    ELSE IF req.remote THEN RemoteFilterTag
    ELSE NoFilter

RemoteFriendly(job) == Get(job, "remote_friendly", FALSE)

\* the working list after a search that returned r: the flag filter of
\* remote and moroccoOnly together, the records of the store when nothing
\* is left, and the enrichment
Candidates(self, req, r) ==
    LET found == IF req.morocco_only /\ req.remote
                 THEN SelectSeq(r, RemoteFriendly)
                 ELSE r
        cells == IF found = <<>>
                 THEN StoreSlice(self.jobs, req.limit * 5)
                 ELSE [i \in 1..Len(found) |-> Copy(found[i])]
        enriched == [i \in 1..Len(cells) |->
                        [ref |-> cells[i].ref, job |-> Enrich(cells[i].job)]]
    IN [cells |-> enriched,
        jobs |-> WriteBack(self.jobs, enriched),
        stages |-> IF found = <<>> THEN {"direct"} ELSE {}]

\* the filters of the request, in the order of the handler
HardFilters(req, cells) ==
    LET by_location(c) ==
            Contains(Lower(Get(c.job, "location", <<>>)), Lower(req.location))
        by_job_type(c) ==
            Contains(Lower(Get(c.job, "job_type", <<>>)), Lower(req.job_type))
        by_salary(c) ==
            \/ Get(c.job, "salary_min", 0) >= req.min_salary
            \/ Get(c.job, "salaryMin", 0) >= req.min_salary
        by_field(c) ==
            \/ Contains(Lower(Get(c.job, "category", <<>>)),
                        Lower(req.engineering_field))
            \/ Contains(Lower(Get(c.job, "title", <<>>)),
                        Lower(req.engineering_field))
        f1 == IF req.location # <<>> THEN SelectSeq(cells, by_location) ELSE cells
        f2 == IF req.job_type # <<>> THEN SelectSeq(f1, by_job_type) ELSE f1
        f3 == IF req.min_salary > 0 THEN SelectSeq(f2, by_salary) ELSE f2
        f4 == IF req.engineering_field # <<>> THEN SelectSeq(f3, by_field) ELSE f3
    IN f4

\* the jobs that reach the filter on the engineering field
BeforeFieldFilter(req, cells) ==
    HardFilters([req EXCEPT !.engineering_field = <<>>], cells)

\* the filter on the engineering field raises: a job that reaches it has a
\* category that is not a string, and (job.get('category', '') or
\* '').lower() fails
FieldFilterRaises(req, cells) ==
    /\ req.engineering_field # <<>>
    /\ \E i \in 1..Len(BeforeFieldFilter(req, cells)) :
          Get(BeforeFieldFilter(req, cells)[i].job, "category", <<>>) = NaN

\* the filters, then the default results when nothing is left of a request
\* with a job type
Filtered(self, req, st) ==
    LET kept == HardFilters(req, st.cells)
        relabel(job) == SetKey(SetKey(job, "job_type", req.job_type),
                               "inferred_type", TRUE)
    IN IF kept = <<>> /\ req.job_type # <<>>
       THEN {[cells |-> [i \in 1..Len(r) |-> Copy(relabel(r[i]))],
              jobs |-> st.jobs,
              stages |-> st.stages \cup {"filter_fallback"}] :
                r \in SearchOutcomes([self EXCEPT !.jobs = st.jobs], req.query,
                                     req.limit,
                                     IF req.morocco_only THEN MoroccoFilterTag
                                     ELSE NoFilter)}
       ELSE {[cells |-> kept, jobs |-> st.jobs, stages |-> st.stages]}

\* how many of the flags before position i are set
CountBefore(flags, i) == Cardinality({j \in 1..(i - 1) : flags[j]})

\* the two loops that give every job of the working list a date. jit is
\* the draw for each job without a creation date, dflt the draw for each
\* job whose creation date fits no layout.
AssignDates(cells, jit, dflt) ==
    LET undated(c) == Get(c.job, "created", NoDate) = NoDate
        unparsed(c) == /\ ~undated(c)
                       /\ "_parsed_date" \notin DOMAIN c.job
                       /\ ~ParseDate(c.job["created"]).parsed
        no_date == [j \in 1..Len(cells) |-> undated(cells[j])]
        no_parse == [j \in 1..Len(cells) |-> unparsed(cells[j])]
        dated(i) ==
            LET job == cells[i].job
            IN IF undated(cells[i])
               THEN LET relevance_position == Min(CountBefore(no_date, i), 59)
                        days_ago == relevance_position
                                    + jit[CountBefore(no_date, i) + 1]
                        job_date == Now - 24 * days_ago
                    IN SetKey(SetKey(job, "created", Strftime(job_date)),
                              "_parsed_date", job_date)
               ELSE IF "_parsed_date" \in DOMAIN job THEN job
               ELSE IF ParseDate(job["created"]).parsed
                    THEN SetKey(job, "_parsed_date", ParseDate(job["created"]).date)
                    ELSE SetKey(job, "_parsed_date",
                                Now - 24 * dflt[CountBefore(no_parse, i) + 1])
    IN [i \in 1..Len(cells) |-> [ref |-> cells[i].ref, job |-> dated(i)]]

\* the sort key of a job: its date, 2000-01-01 when it has none
ParsedDate(job) == Get(job, "_parsed_date", Y2000)

\* list.sort(key = _parsed_date, reverse = True): stable, so jobs of one
\* date keep their order
SortByDate(s) ==
    LET n == Len(s)
        date == [i \in 1..n |-> ParsedDate(s[i])]
        before(i, j) == date[i] > date[j] \/ (date[i] = date[j] /\ i < j)
        rank(i) == Cardinality({j \in 1..n : before(j, i)})
    IN [r \in 1..n |-> s[CHOOSE i \in 1..n : rank(i) = r - 1]]

\* the assignment of dates and the sort, when the request sorts by date;
\* the working list no longer writes to the store afterwards
Dated(req, st) ==
    LET undated(c) == Get(c.job, "created", NoDate) = NoDate
        unparsed(c) == /\ ~undated(c)
                       /\ "_parsed_date" \notin DOMAIN c.job
                       /\ ~ParseDate(c.job["created"]).parsed
        u == Cardinality({j \in 1..Len(st.cells) : undated(st.cells[j])})
        v == Cardinality({j \in 1..Len(st.cells) : unparsed(st.cells[j])})
        values(cells) == [i \in 1..Len(cells) |-> cells[i].job]
    IN IF ~req.sort_by_date
       THEN {[results |-> values(st.cells), jobs |-> st.jobs, stages |-> st.stages]}
       ELSE {[results |-> SortByDate(values(AssignDates(st.cells, jit, dflt))),
              jobs |-> WriteBack(st.jobs, AssignDates(st.cells, jit, dflt)),
              stages |-> st.stages] :
                jit \in [1..u -> JitterDays], dflt \in [1..v -> DefaultDays]}

\* the dates given to the jobs fetched by the widening; w is the draw for
\* each job without a creation date
WidenDates(all_results, w) ==
    LET blank(job) == /\ "_parsed_date" \notin DOMAIN job
                      /\ Get(job, "created", NoDate) = NoDate
        no_date == [j \in 1..Len(all_results) |-> blank(all_results[j])]
        dated(i) ==
            LET job == all_results[i]
            IN IF "_parsed_date" \in DOMAIN job THEN job
               ELSE IF Get(job, "created", NoDate) # NoDate
                    THEN IF ParseDate(job["created"]).parsed
                         THEN SetKey(job, "_parsed_date",
                                     ParseDate(job["created"]).date)
                         ELSE job
                    ELSE SetKey(job, "_parsed_date",
                                Now - 24 * w[CountBefore(no_date, i) + 1])
    IN [i \in 1..Len(all_results) |-> dated(i)]

\* job.get('id'), if it is there and not empty
HasId(job) == Get(job, "id", <<>>) # <<>>

\* the loop that adds the fetched jobs whose id is not in the list yet
RECURSIVE AppendNew(_, _, _, _, _)
AppendNew(results, all_results, i, existing_ids, limit) ==
    IF i > Len(all_results) \/ Len(results) >= limit THEN results
    ELSE LET job == all_results[i]
         IN IF HasId(job) /\ job["id"] \notin existing_ids
            THEN AppendNew(Append(results, job), all_results, i + 1,
                           existing_ids \cup {job["id"]}, limit)
            ELSE AppendNew(results, all_results, i + 1, existing_ids, limit)

\* the recency filter and its widening
Recent(self, req, st) ==
    LET cutoff_time == Now - req.recent_hours
        fresh(job) == Get(job, "_parsed_date", Y1970) >= cutoff_time
        kept == SelectSeq(st.results, fresh)
        filtered_count == Len(st.results) - Len(kept)
        blank(job) == /\ "_parsed_date" \notin DOMAIN job
                      /\ Get(job, "created", NoDate) = NoDate
        existing_ids == {kept[i]["id"] : i \in {j \in 1..Len(kept) : HasId(kept[j])}}
    IN IF req.recent_hours <= 0 THEN {st}
       ELSE IF Len(kept) < Min(req.limit, 5) /\ filtered_count > 0
            THEN UNION {
                   {[results |-> AppendNew(kept,
                                           SortByDate(WidenDates(all_results, w)),
                                           1, existing_ids, req.limit),
                     jobs |-> st.jobs,
                     stages |-> st.stages \cup {"widening"}] :
                      w \in [1..Cardinality({j \in 1..Len(all_results) :
                                                   blank(all_results[j])})
                               -> WidenDays]} :
                   all_results \in SearchOutcomes([self EXCEPT !.jobs = st.jobs],
                                                  req.query, req.limit * 10,
                                                  NoFilter)}
            ELSE {[results |-> kept, jobs |-> st.jobs, stages |-> st.stages]}

\* the loop that adds the jobs of more_results that duplicate no job of
\* the list
RECURSIVE TopUp(_, _, _, _)
TopUp(results, more_results, i, limit) ==
    IF i > Len(more_results) \/ Len(results) >= limit * 2 THEN results
    ELSE IF \E e \in 1..Len(results) : IsDuplicateJob(more_results[i], results[e])
         THEN TopUp(results, more_results, i + 1, limit)
         ELSE TopUp(Append(results, more_results[i]), more_results, i + 1, limit)

\* decimal digits of n >= 0, as str(n)
RECURSIVE Str(_)
Str(n) ==
    LET digit == <<"0", "1", "2", "3", "4", "5", "6", "7", "8", "9">>[(n % 10) + 1]
    IN IF n < 10 THEN <<digit>> ELSE Append(Str(n \div 10), digit)

\* what generate_sample_jobs draws for one job, two of its draws
SampleChoices ==
    {[title |-> <<"S", "o", "f", "t", "w", "a", "r", "e", " ", "E", "n", "g", "i", "n", "e", "e", "r">>, company |-> <<"T", "e", "c", "h", "C", "o", "r", "p">>,
      location |-> <<"R", "a", "b", "a", "t">>, job_type |-> <<"C", "D", "I">>, remote |-> FALSE,
      salary_min |-> 30000, days_ago |-> 0],
     [title |-> <<"D", "a", "t", "a", " ", "S", "c", "i", "e", "n", "t", "i", "s", "t">>, company |-> <<"A", "I", "L", "a", "b", "s">>,
      location |-> <<"F", "e", "z">>, job_type |-> <<"S", "t", "a", "g", "e">>, remote |-> TRUE,
      salary_min |-> 80000, days_ago |-> 30]}

\* generate_sample_jobs(count); the id of a job is a fresh uuid, here the
\* number of the job
GenerateSampleJobs(count) ==
    {[i \in 1..count |->
        [id |-> <<"u", "u", "i", "d", "-">> \o Str(i - 1),
         title |-> pick[i].title,
         company |-> pick[i].company,
         location |-> pick[i].location,
         job_type |-> pick[i].job_type,
         remote_friendly |-> pick[i].remote,
         salary_min |-> pick[i].salary_min,
         created |-> Strftime(Now - 24 * pick[i].days_ago),
         description |-> <<"T", "h", "i", "s", " ", "i", "s", " ", "a", " ">> \o pick[i].job_type \o <<" ", "p", "o", "s", "i", "t", "i", "o", "n">>,
         category |-> <<"E", "n", "g", "i", "n", "e", "e", "r", "i", "n", "g">>,
         redirect_url |-> <<"h", "t", "t", "p", "s", ":", "/", "/", "e", "x", "a", "m", "p", "l", "e", ".", "c", "o", "m", "/", "j", "o", "b", "s", "/">> \o Str(i - 1)]] :
       pick \in [1..Max(count, 0) -> SampleChoices]}

\* the jobs fetched when the removal of duplicates turned original_count
\* jobs into too few
ToppedUp(self, req, st, original_count, deduped) ==
    IF Len(deduped) < req.limit /\ original_count >= req.limit
    THEN {[results |-> TopUp(deduped, more_results, 1, req.limit),
           jobs |-> st.jobs,
           stages |-> st.stages \cup {"top_up"}] :
             more_results \in
                 SearchOutcomes([self EXCEPT !.jobs = st.jobs],
                                req.query, req.limit * 2,
                                IF req.morocco_only THEN MoroccoFilterTag
                                ELSE NoFilter)}
    ELSE {[results |-> deduped, jobs |-> st.jobs, stages |-> st.stages]}

\* the sample jobs when nothing is left
Sampled(req, st) ==
    IF Len(st.results) = 0
    THEN {[results |-> sample_jobs,
           jobs |-> st.jobs,
           stages |-> st.stages \cup {"sample_jobs"}] :
             sample_jobs \in GenerateSampleJobs(req.limit)}
    ELSE {st}

\* the removal of duplicates, when the request asks for it
Deduplicated(self, req, st) ==
    IF ~req.remove_duplicates THEN {st}
    ELSE UNION {Sampled(req, t) :
                   t \in ToppedUp(self, req, st, Len(st.results),
                                  RemoveDuplicateJobs(st.results, req.limit))}

\* one job in the format of the UI; n jobs are formatted before it
FormatJob(job, n) ==
    LET created == Get(job, "created", NoDate)
    IN [id |-> Get(job, "id", <<"j", "o", "b", "-">> \o Str(n)),
        title |-> Get(job, "title", <<"U", "n", "k", "n", "o", "w", "n", " ", "T", "i", "t", "l", "e">>),
        company |-> Get(job, "company", <<"U", "n", "k", "n", "o", "w", "n", " ", "C", "o", "m", "p", "a", "n", "y">>),
        location |-> Get(job, "location", <<"U", "n", "k", "n", "o", "w", "n", " ", "L", "o", "c", "a", "t", "i", "o", "n">>),
        description |-> Get(job, "description", <<>>),
        salaryMin |-> Get(job, "salary_min", 0),
        jobType |-> Get(job, "job_type", Get(job, "contract_type", <<>>)),
        remote |-> Get(job, "remote_friendly", FALSE),
        url |-> Get(job, "redirect_url", <<>>),
        postedAt |-> IF created = NoDate /\ "_parsed_date" \in DOMAIN job
                     THEN Strftime(job["_parsed_date"])
                     ELSE created,
        category |-> IF Get(job, "specialty", Get(job, "category", <<>>)) = NaN
                     THEN <<>>
                     ELSE Get(job, "specialty", Get(job, "category", <<>>)),
        similarityScore |-> Get(job, "similarity_score", <<0, 1>>),
        inferredType |-> Get(job, "inferred_type", FALSE),
        isRecent |-> Get(job, "_parsed_date", Y1970) >= Now - 6]

\* the formatting without the cut to limit
FormattedResultsUncut(results, limit) ==
    [n \in 1..Len(results) |-> FormatJob(results[n], n - 1)]

\* formatted_results: the first limit results, formatted
FormattedResults(results, limit) ==
    [n \in 1..Len(Slice(results, limit)) |-> FormatJob(results[n], n - 1)]

\* the candidates of the request after the search and the enrichment
Searched(self, req) ==
    {Candidates(self, req, r) :
        r \in SearchOutcomes(self, req.query, req.limit * 5, FirstFilter(req))}

\* the response of the except branch of the handler: an error and no jobs,
\* with what the enrichment wrote to the store before the filter raised
ErrorOutcomes(self, req) ==
    {[formatted_results |-> <<>>,
      jobs |-> st.jobs,
      stages |-> st.stages \cup {"error"}] :
        st \in {c \in Searched(self, req) : FieldFilterRaises(req, c.cells)}}

\* the outcomes of one request: the jobs of the response, the records of
\* the store after it, and the stages the request went through. The
\* handler raises where a filter meets a category that is not a string;
\* the other fields of the records hold strings, numbers and booleans
\* where the handler expects them.
SearchJobsOutcomes(self, req) ==
    LET searched == {c \in Searched(self, req) :
                        ~FieldFilterRaises(req, c.cells)}
        filtered == UNION {Filtered(self, req, st) : st \in searched}
        dated == UNION {Dated(req, st) : st \in filtered}
        recent == UNION {Recent(self, req, st) : st \in dated}
        deduplicated == UNION {Deduplicated(self, req, st) : st \in recent}
    IN {[formatted_results |-> FormattedResults(st.results, req.limit),
         jobs |-> st.jobs,
         stages |-> st.stages] : st \in deduplicated}
       \cup ErrorOutcomes(self, req)

-----------------------------------------------------------------------------
(* Ingestion and the requests of the API.                                  *)

PipelinePool == {JobA, JobB, JobG}

PipelineQueries == {<<>>, <<"m", "l">>}

\* the requests without a filter, and requests with one filter each; the
\* filter on the location also without the removal of duplicates; the
\* filter on the job type also with a location and with a recency window
\* and the recency window also without the sort by date and with a query
PipelineRequests ==
    LET trivial == {TrivialRequest(query, limit, remove_duplicates, sort_by_date) :
                       query \in PipelineQueries, limit \in 1..MaxLimit,
                       remove_duplicates \in BOOLEAN, sort_by_date \in BOOLEAN}
        base == {TrivialRequest(<<>>, limit, TRUE, TRUE) : limit \in 1..MaxLimit}
        keeping == {TrivialRequest(<<>>, limit, FALSE, TRUE) : limit \in 1..MaxLimit}
    IN trivial
       \cup {[r EXCEPT !.location = <<"f", "e", "s">>] : r \in base \cup keeping}
       \cup {[r EXCEPT !.job_type = <<"s", "t", "a", "g", "e">>] : r \in base}
       \cup {[r EXCEPT !.job_type = <<"s", "t", "a", "g", "e">>,
                       !.location = <<"f", "e", "s">>] : r \in base}
       \cup {[r EXCEPT !.job_type = <<"s", "t", "a", "g", "e">>,
                       !.recent_hours = 24] : r \in base}
       \cup {[r EXCEPT !.min_salary = 5] : r \in base}
       \cup {[r EXCEPT !.engineering_field = <<"M", "L">>] : r \in base}
       \cup {[r EXCEPT !.remote = TRUE] : r \in base}
       \cup {[r EXCEPT !.morocco_only = TRUE] : r \in base}
       \cup {[r EXCEPT !.remote = TRUE, !.morocco_only = TRUE] : r \in base}
       \cup {[r EXCEPT !.recent_hours = 24] : r \in base}
       \cup {[r EXCEPT !.recent_hours = 24, !.sort_by_date = FALSE] : r \in base}
       \cup {[r EXCEPT !.recent_hours = 24, !.query = <<"m", "l">>] : r \in base}

PipelineAddBatch == AddBatchWithin(PipelinePool, MaxPipelineBatch, MaxPipelineJobs)

\* GET /api/jobs/search
SearchJobs ==
    /\ Settled
    /\ \E req \in PipelineRequests :
         \E out \in SearchJobsOutcomes(Self, req) :
             /\ call' = [op |-> "search_jobs", request |-> req]
             /\ ret' = out.formatted_results
             /\ jobs' = out.jobs
             /\ path' = out.stages
             /\ UNCHANGED <<index, job_ids_map, disk>>

PipelineNext ==
    \/ PipelineAddBatch
    \/ SearchJobs

SpecPipeline == Init /\ [][PipelineNext]_vars

-----------------------------------------------------------------------------
(* The requests on a store that holds a record with a missing category.    *)

MaxServedJobs == 3

ServedPool == {JobG, JobN}

ServedInit == BuiltFrom(ServedPool, MaxServedJobs)

ServedNext == SearchJobs

SpecServed == ServedInit /\ [][ServedNext]_vars

-----------------------------------------------------------------------------
(* add_jobs_from_dataframe and load, one statement at a time, and the      *)
(* search of another thread. JobVectorStore holds no lock; path is the     *)
(* statement the writing thread executes next, call its local variables,   *)
(* and ret what the last search found in the store.                        *)

MaxWriterJobs == 2

WriterPool == {JobA, JobB}

\* JobVectorStore.__init__, before any search
WriterInit ==
    /\ index = <<>>
    /\ jobs = <<>>
    /\ job_ids_map = <<>>
    /\ index_file = NoFile
    /\ data_file = NoFile
    /\ call = [op |-> "init"]
    /\ ret = [op |-> "none"]
    /\ path = "return"

\* add_jobs_from_dataframe up to the loop: current_index, added, and the
\* empty lists vectors and valid_jobs
BeginAddBatch ==
    /\ path = "return"
    /\ Len(jobs) < MaxWriterJobs
    /\ Len(index) < MaxWriterJobs
    /\ \E job \in WriterPool, ok \in BOOLEAN :
          call' = [op |-> "add_batch", batch |-> <<job>>, ok |-> <<ok>>,
                   i |-> 1, current_index |-> Len(jobs), added |-> 0,
                   vectors |-> <<>>, valid_jobs |-> <<>>]
    /\ path' = "embed"
    /\ UNCHANGED <<store, disk, ret>>

\* one turn of the loop: the embedding, and on success the entry of the
\* position map; after the last turn the test of added
EmbedRecord ==
    /\ path = "embed"
    /\ LET i == call.i
           added == IF call.ok[i] THEN call.added + 1 ELSE call.added
       IN /\ IF call.ok[i]
             THEN /\ job_ids_map' = SetKey(job_ids_map,
                                           call.current_index + call.added,
                                           call.current_index + call.added)
                  /\ call' = [call EXCEPT
                                !.vectors = Append(@, CreateJobVector(call.batch[i])),
                                !.valid_jobs = Append(@, call.batch[i]),
                                !.added = added,
                                !.i = i + 1]
             ELSE /\ UNCHANGED job_ids_map
                  /\ call' = [call EXCEPT !.i = i + 1]
          /\ path' = IF i < Len(call.batch) THEN "embed"
                     ELSE IF added > 0 THEN "index_add"
                     ELSE "return"
    /\ UNCHANGED <<index, jobs, disk, ret>>

\* self.index.add(job_vectors)
IndexAdd ==
    /\ path = "index_add"
    /\ index' = index \o call.vectors
    /\ path' = "jobs_extend"
    /\ UNCHANGED <<jobs, job_ids_map, disk, call, ret>>

\* self.jobs.extend(valid_jobs)
JobsExtend ==
    /\ path = "jobs_extend"
    /\ jobs' = jobs \o call.valid_jobs
    /\ path' = "return"
    /\ UNCHANGED <<index, job_ids_map, disk, call, ret>>

\* save, as one step of the writing thread; the write of the data
\* artifact succeeds or leaves the artifact unreadable
WriterSave ==
    /\ path = "return"
    /\ \E fails_at \in {"none", "data"} :
          /\ index_file' = Readable(WriteIndex(index))
          /\ data_file' = IF fails_at = "none"
                          THEN Readable(PickleDump([jobs |-> jobs,
                                           job_ids_map |-> job_ids_map]))
                          ELSE Unreadable
          /\ call' = [op |-> "save", fails_at |-> fails_at]
    /\ UNCHANGED <<store, ret, path>>

\* load up to the test that both artifacts exist
BeginLoad ==
    /\ path = "return"
    /\ call' = [op |-> "load"]
    /\ path' = IF index_file.state = "missing" \/ data_file.state = "missing"
               THEN "return"
               ELSE "read_index"
    /\ UNCHANGED <<store, disk, ret>>

\* self.index = faiss.read_index(index_path)
AssignIndex ==
    /\ path = "read_index"
    /\ IF index_file.state = "corrupt"
       THEN /\ path' = "return"
            /\ UNCHANGED index
       ELSE /\ index' = ReadIndex(index_file.content)
            /\ path' = "pickle_load"
    /\ UNCHANGED <<jobs, job_ids_map, disk, call, ret>>

\* pickle.load(f) and the assignment of self.jobs
AssignJobs ==
    /\ path = "pickle_load"
    /\ IF data_file.state = "corrupt"
       THEN /\ path' = "return"
            /\ UNCHANGED jobs
       ELSE /\ jobs' = PickleLoad(data_file.content).jobs
            /\ path' = "assign_map"
    /\ UNCHANGED <<index, job_ids_map, disk, call, ret>>

\* the assignment of self.job_ids_map
AssignMap ==
    /\ path = "assign_map"
    /\ job_ids_map' = PickleLoad(data_file.content).job_ids_map
    /\ path' = "return"
    /\ UNCHANGED <<index, jobs, disk, call, ret>>

\* position i of the index holds the vector of the record the position
\* map gives for i
AlignedAt(self, i) ==
    /\ i \in DOMAIN self.job_ids_map
    /\ self.job_ids_map[i] + 1 \in 1..Len(self.jobs)
    /\ self.index[i + 1] = CreateJobVector(self.jobs[self.job_ids_map[i] + 1])

\* what a search finds in the store: the sizes of the index, of the record
\* store and of the position map, and whether every position of the index
\* leads to its record
Found(self) ==
    [ntotal |-> Len(self.index),
     records |-> Len(self.jobs),
     positions |-> Cardinality(DOMAIN self.job_ids_map),
     aligned |-> \A i \in 0..(Len(self.index) - 1) : AlignedAt(self, i)]

\* search_similar_jobs of another thread, wherever the writing thread is
ConcurrentSearch ==
    /\ ret' = [op |-> "search", during |-> call.op, before |-> path,
               found |-> Found(Self)]
    /\ UNCHANGED <<store, disk, call, path>>

WriterNext ==
    \/ BeginAddBatch
    \/ EmbedRecord
    \/ IndexAdd
    \/ JobsExtend
    \/ WriterSave
    \/ BeginLoad
    \/ AssignIndex
    \/ AssignJobs
    \/ AssignMap
    \/ ConcurrentSearch

SpecWriter == WriterInit /\ [][WriterNext]_vars

-----------------------------------------------------------------------------
(* The start of the API server: the statements api.py executes when it is  *)
(* imported, and initialize_vector_store, which the main program calls     *)
(* before it serves. path is the position of the process; call.data_dir    *)
(* holds the records of the CSV files of the data directory.               *)

MaxStartupJobs == 2      \* records of a snapshot and of the data directory
MaxStartupSamples == 1   \* sample jobs generated at import (50 in api.py)

StartupPool == {JobA}

\* the data artifact when a whole store object was pickled into it, by
\* init_vector_store.py or by api.py: the object has records, and no
\* vector for any of them
PickledObject(records) == [state |-> "object", content |-> records]

\* the vectors add_jobs_from_dataframe computes for records
VectorsOf(records) == [i \in 1..Len(records) |-> CreateJobVector(records[i])]

\* the position map add_jobs_from_dataframe builds for n records
IdentityMap(n) == [i \in 0..(n - 1) |-> i]

\* the index artifacts a process may find
StartupIndexFiles ==
    {NoFile, Unreadable}
    \cup {Readable(WriteIndex(VectorsOf(rs))) :
             rs \in SeqsUpTo(StartupPool, MaxStartupJobs)}

\* the data artifacts a process may find
StartupDataFiles ==
    {NoFile, Unreadable}
    \cup {Readable(PickleDump([jobs |-> rs, job_ids_map |-> IdentityMap(Len(rs))])) :
             rs \in SeqsUpTo(StartupPool, MaxStartupJobs)}
    \cup {PickledObject(rs) : rs \in SeqsUpTo(StartupPool, MaxStartupJobs)}

\* the process before api.py is executed: no store yet
StartupInit ==
    /\ index = <<>>
    /\ jobs = <<>>
    /\ job_ids_map = <<>>
    /\ index_file \in StartupIndexFiles
    /\ data_file \in StartupDataFiles
    /\ \E data_dir \in SeqsUpTo(StartupPool, MaxStartupJobs) :
          call = [op |-> "start", data_dir |-> data_dir]
    /\ ret = FALSE
    /\ path = "start"

\* the module-level statements of api.py that bind vector_store.
\* pickle.load gives an object with records when a store object was
\* pickled; the pair written by save has no attribute jobs, and an
\* unreadable file does not load: both end in the last except branch.
\* dumped says whether pickle.dump of the new store succeeds; when it
\* raises inside the except branch the import fails.
ModuleLevelLoad ==
    /\ path = "start"
    /\ \E sample_jobs \in GenerateSampleJobs(MaxStartupSamples),
          dumped \in BOOLEAN :
          /\ index' = <<>>
          /\ job_ids_map' = <<>>
          /\ ret' = dumped
          /\ UNCHANGED index_file
          /\ IF data_file.state = "object"
             THEN IF data_file.content # <<>>
                  THEN /\ dumped
                       /\ jobs' = data_file.content
                       /\ UNCHANGED data_file
                       /\ path' = "imported"
                       /\ call' = [call EXCEPT !.op = "module_load:loaded"]
                  ELSE /\ jobs' = sample_jobs
                       /\ data_file' = IF dumped THEN PickledObject(sample_jobs)
                                       ELSE Unreadable
                       /\ path' = "imported"
                       /\ call' = [call EXCEPT !.op = "module_load:samples"]
             ELSE IF data_file.state = "missing"
             THEN /\ jobs' = sample_jobs
                  /\ data_file' = IF dumped THEN PickledObject(sample_jobs)
                                  ELSE Unreadable
                  /\ path' = IF dumped THEN "imported" ELSE "failed"
                  /\ call' = [call EXCEPT !.op = "module_load:not_found"]
             ELSE /\ dumped
                  /\ jobs' = sample_jobs
                  /\ UNCHANGED data_file
                  /\ path' = "imported"
                  /\ call' = [call EXCEPT !.op = "module_load:error"]

\* the two jobs initialize_vector_store puts into a store without jobs
InitSampleJobs ==
    <<[id |-> <<"j", "o", "b", "-", "1">>, title |-> <<"S", "o", "f", "t", "w", "a", "r", "e", " ", "E", "n", "g", "i", "n", "e", "e", "r">>,
       company |-> <<"T", "e", "c", "h", " ", "C", "o", "r", "p">>, location |-> <<"C", "a", "s", "a", "b", "l", "a", "n", "c", "a">>,
       job_type |-> <<"C", "D", "I">>, salary_min |-> 45000, salary_max |-> 75000,
       description |-> <<"P", "y", "t", "h", "o", "n", ",", " ", "J", "a", "v", "a", "S", "c", "r", "i", "p", "t", " ", "d", "e", "v", "e", "l", "o", "p", "m", "e", "n", "t">>],
      [id |-> <<"j", "o", "b", "-", "2">>, title |-> <<"D", "a", "t", "a", " ", "S", "c", "i", "e", "n", "t", "i", "s", "t">>,
       company |-> <<"A", "I", " ", "S", "o", "l", "u", "t", "i", "o", "n", "s">>, location |-> <<"R", "a", "b", "a", "t">>,
       job_type |-> <<"C", "D", "I">>, salary_min |-> 50000, salary_max |-> 85000,
       description |-> <<"M", "a", "c", "h", "i", "n", "e", " ", "l", "e", "a", "r", "n", "i", "n", "g", ",", " ", "P", "y", "t", "h", "o", "n", ",", " ", "S", "Q", "L">>]>>

\* JobVectorStore(...).load() in initialize_vector_store: the store after
\* it and its result. A pickled store object is not a pair, so the
\* assignment of self.jobs, self.job_ids_map raises after self.index was
\* assigned, like an unreadable file.
LoadedAtStart ==
    IF index_file.state = "missing" \/ data_file.state = "missing"
       \/ index_file.state = "corrupt"
    THEN [store |-> NewStore, ok |-> FALSE]
    ELSE IF data_file.state # "ok"
    THEN [store |-> [NewStore EXCEPT !.index = ReadIndex(index_file.content)],
          ok |-> FALSE]
    ELSE [store |-> [index |-> ReadIndex(index_file.content),
                     jobs |-> PickleLoad(data_file.content).jobs,
                     job_ids_map |-> PickleLoad(data_file.content).job_ids_map],
          ok |-> TRUE]

\* add_jobs_from_directory on the store self: the records of the data
\* directory, each embedding succeeding or failing
AddedFromDirectory(self, data_dir, ok) ==
    LET st == AddLoop(data_dir, ok, 1, Len(self.jobs),
                      [vectors |-> <<>>, valid_jobs |-> <<>>,
                       map |-> self.job_ids_map, added |-> 0])
    IN [index |-> IF st.added > 0 THEN self.index \o st.vectors ELSE self.index,
        jobs |-> IF st.added > 0 THEN self.jobs \o st.valid_jobs ELSE self.jobs,
        job_ids_map |-> st.map]

\* initialize_vector_store: a new store, load, on failure the data
\* directory and save, and the two sample jobs for a store without jobs.
\* raises: listing the data directory raises, and the except branch
\* leaves a new store and makes the server exit.
InitializeVectorStore ==
    /\ path = "imported"
    /\ \E ok \in [1..Len(call.data_dir) -> BOOLEAN], raises \in BOOLEAN :
          LET loaded == LoadedAtStart
              built == IF loaded.ok THEN loaded.store
                       ELSE AddedFromDirectory(loaded.store, call.data_dir, ok)
              filled == IF built.jobs = <<>>
                        THEN [built EXCEPT !.jobs = built.jobs \o InitSampleJobs]
                        ELSE built
          IN IF raises
             THEN /\ ~loaded.ok
                  /\ index' = NewStore.index
                  /\ jobs' = NewStore.jobs
                  /\ job_ids_map' = NewStore.job_ids_map
                  /\ UNCHANGED disk
                  /\ ret' = FALSE
                  /\ path' = "exit"
                  /\ call' = [call EXCEPT !.op = "initialize_vector_store:error"]
             ELSE /\ index' = filled.index
                  /\ jobs' = filled.jobs
                  /\ job_ids_map' = filled.job_ids_map
                  /\ IF loaded.ok
                     THEN UNCHANGED disk
                     ELSE /\ index_file' = Readable(WriteIndex(built.index))
                          /\ data_file' = Readable(PickleDump(
                                              [jobs |-> built.jobs,
                                               job_ids_map |-> built.job_ids_map]))
                  /\ ret' = TRUE
                  /\ path' = "serving"
                  /\ call' = [call EXCEPT !.op =
                                 IF loaded.ok THEN "initialize_vector_store:loaded"
                                 ELSE IF built.jobs = <<>>
                                 THEN "initialize_vector_store:samples"
                                 ELSE "initialize_vector_store:built"]

StartupNext ==
    \/ ModuleLevelLoad
    \/ InitializeVectorStore

SpecStartup == StartupInit /\ [][StartupNext]_vars

-----------------------------------------------------------------------------
(* The enrichment of one candidate.                                        *)

EnrichTitles ==
    {<<"d", "e", "v">>,
     <<"S", "t", "a", "g", "e", " ", "d", "e", "v">>,
     <<"C", "D", "D", " ", "c", "d", "i">>,
     <<"f", "r", "e", "e", "l", "a", "n", "c", "e">>,
     <<"p", "a", "r", "t", "-", "t", "i", "m", "e", " ", "q", "a">>,
     <<"I", "n", "t", "e", "r", "n", "s", "h", "i", "p">>}

EnrichDescriptions ==
    {<<>>,
     <<"c", "d", "i">>,
     <<"s", "t", "a", "g", "e", " ", "c", "d", "d">>,
     <<"w", "e", " ", "h", "i", "r", "e">>,
     <<"i", "n", "d", "e", "p", "e", "n", "d", "e", "n", "t">>,
     <<"t", "e", "m", "p", "s", " ", "p", "a", "r", "t", "i", "e", "l">>,
     <<"P", "e", "r", "m", "a", "n", "e", "n", "t">>}

\* the contract types candidates come with; the empty string counts as
\* missing
EnrichTypes ==
    {<<>>,
     <<"C", "D", "D">>,
     <<"S", "t", "a", "g", "e">>}

\* the candidates: with and without the field job_type
EnrichPool ==
    LET untyped == {[id |-> <<"1">>, title |-> t, description |-> d] :
                       t \in EnrichTitles, d \in EnrichDescriptions}
    IN untyped \cup {SetKey(job, "job_type", jt) :
                        job \in untyped, jt \in EnrichTypes}

EnrichInit ==
    /\ index = <<>>
    /\ jobs = <<>>
    /\ job_ids_map = <<>>
    /\ index_file = NoFile
    /\ data_file = NoFile
    /\ \E job \in EnrichPool : call = [op |-> "arguments", job |-> job]
    /\ ret = <<>>
    /\ path = "return"

\* one turn of the enrichment loop of search_jobs
EnrichJob ==
    /\ call.op = "arguments"
    /\ call' = [call EXCEPT !.op = "enrich"]
    /\ ret' = Enrich(call.job)
    /\ UNCHANGED <<store, disk, path>>

EnrichNext == EnrichJob

SpecEnrich == EnrichInit /\ [][EnrichNext]_vars

-----------------------------------------------------------------------------
(* The synthetic dates of the jobs without a creation date, for two of     *)
(* them at a time.                                                         *)

MaxRank == 61

\* random.randint(0, 3)
JitterRange == 0..3

\* days_ago of the job at position i of jobs_without_dates
DaysAgo(i, jitter) == Min(i, 59) + jitter

\* job_date
JobDate(i, jitter) == Now - 24 * DaysAgo(i, jitter)

DatesInit ==
    /\ index = <<>>
    /\ jobs = <<>>
    /\ job_ids_map = <<>>
    /\ index_file = NoFile
    /\ data_file = NoFile
    /\ \E i, j \in 0..MaxRank :
          /\ i < j
          /\ call = [op |-> "arguments", i |-> i, j |-> j]
    /\ ret = <<>>
    /\ path = "return"

\* the two passes of the loop over jobs_without_dates that date the jobs
\* at positions i and j, each with its own draw
AssignTwoDates ==
    /\ call.op = "arguments"
    /\ \E jitter_i, jitter_j \in JitterRange :
          /\ call' = [op |-> "assign_dates", i |-> call.i, j |-> call.j,
                       jitter_i |-> jitter_i, jitter_j |-> jitter_j]
          /\ ret' = <<JobDate(call.i, jitter_i), JobDate(call.j, jitter_j)>>
    /\ path' = "return"
    /\ UNCHANGED <<store, disk>>

DatesNext == AssignTwoDates

SpecDates == DatesInit /\ [][DatesNext]_vars

-----------------------------------------------------------------------------
(* The properties checked, each under the specification that exercises it. *)

SearchOps == {"search_similar_jobs", "search_remote_jobs",
              "search_morocco_relevant", "search_by_keywords"}

IsSearch == call.op \in SearchOps

\* C1: after any sequence of add_batch calls on an initially empty store,
\* the vector index, the record store and the position map have the same
\* size n, the position map is the identity on 0..n-1, and the vector at
\* position i is the embedding of the canonical text of the record at
\* position_map[i].
C1_Alignment ==
    LET n == Len(jobs)
    IN /\ Len(index) = n
       /\ DOMAIN job_ids_map = 0..(n - 1)
       /\ \A i \in 0..(n - 1) :
             /\ job_ids_map[i] = i
             /\ index[i + 1] = Embed(CanonicalText(jobs[job_ids_map[i] + 1]))

\* a second batch whose first record failed and whose second was added
C1_Witness ==
    /\ call.op = "add_batch"
    /\ Len(call.batch) = 2
    /\ ~call.ok[1]
    /\ call.ok[2]
    /\ Len(jobs) = 2

\* C5: a record whose embedding fails is skipped without aborting the
\* batch: the store grows by exactly the records that succeeded, in batch
\* order at consecutive positions, and the returned count is their number.
C5_SkipFailed ==
    [][call'.op = "add_batch" =>
        LET batch == call'.batch
            ok == call'.ok
            good == {i \in 1..Len(batch) : ok[i]}
            m == Cardinality(good)
            nth(r) == CHOOSE i \in good :
                          Cardinality({j \in good : j <= i}) = r
            n == Len(jobs)
        IN /\ ret' = m
           /\ Len(jobs') - n = ret'
           /\ jobs' = jobs \o [r \in 1..m |-> batch[nth(r)]]
           /\ index' = index \o [r \in 1..m |->
                                    Embed(CanonicalText(batch[nth(r)]))]
           /\ DOMAIN job_ids_map' = (DOMAIN job_ids_map) \cup (n..(n + m - 1))
           /\ \A p \in DOMAIN job_ids_map' :
                 job_ids_map'[p] = IF p \in DOMAIN job_ids_map /\ p < n
                                   THEN job_ids_map[p] ELSE p
    ]_vars

\* a batch of two on a store of one: the first fails, the second is added
C5_Witness ==
    /\ call.op = "add_batch"
    /\ Len(call.batch) = 2
    /\ ~call.ok[1]
    /\ call.ok[2]
    /\ ret = 1
    /\ Len(jobs) = 2
    /\ jobs[2] = call.batch[2]

\* C6: a search with k >= 1 returns the empty list if and only if the
\* store is empty.
C6_EmptyOnlyWhenStoreEmpty ==
    (IsSearch /\ call.k >= 1) => ((ret = <<>>) <=> (jobs = <<>>))

\* a filtered search that ended on the last resort with a result
C6_Witness ==
    /\ IsSearch
    /\ call.k >= 1
    /\ call.filter.kind # "none"
    /\ path = "random"
    /\ ret # <<>>

\* what the scan of the index yields for the call c
VectorResults(c) ==
    IF SearchWidth(Self, c.k, c.filter) < 1 THEN <<>>
    ELSE ScanHits(Self,
                  IndexSearch(index, Embed(c.query),
                              SearchWidth(Self, c.k, c.filter)),
                  1, c.k, c.filter, <<>>)

\* what the keyword scorer yields for the call c
KeywordMatches(c) == ScoredJobs(jobs, 1, Split(Lower(c.query)), c.filter)

\* C7: on a non-empty store the keyword scorer is taken if and only if the
\* embedding throws or the scan yields nothing, and the last resort if and
\* only if the keyword scorer yields nothing too; last-resort results carry
\* the score 0.1; a store of one record with a failing provider answers
\* search("x", 1) with that record, scored 0.1.
C7_FallbackOrder ==
    (IsSearch /\ jobs # <<>>) =>
        LET fell == ~call.embed_ok \/ VectorResults(call) = <<>>
        IN /\ (path \in {"keyword", "random"}) <=> fell
           /\ (path = "random") <=> (fell /\ KeywordMatches(call) = <<>>)
           /\ (path = "keyword") => ret = Slice(SortByScore(KeywordMatches(call)), call.k)
           /\ (path = "random") =>
                 \A i \in 1..Len(ret) : ret[i]["similarity_score"] = <<1, 10>>
           /\ (Len(jobs) = 1 /\ ~call.embed_ok /\ call.query = <<"x">>
               /\ call.k = 1 /\ call.filter.kind = "none") =>
                 ret = <<SetKey(jobs[1], "similarity_score", <<1, 10>>)>>

\* the scenario of the store of one record and the failing provider
C7_Witness ==
    /\ call.op = "search_similar_jobs"
    /\ Len(jobs) = 1
    /\ ~call.embed_ok
    /\ call.query = <<"x">>
    /\ call.k = 1
    /\ path = "random"
    /\ Len(ret) = 1

\* C8: every record a filtered search returns satisfies the filter, on
\* every path.
C8_FilterRespected ==
    (IsSearch /\ call.filter.kind # "none") =>
        \A i \in 1..Len(ret) : FilterFn(call.filter, ret[i])

\* C10: the results of a search are in descending order of score.
C10_Descending ==
    IsSearch =>
        \A i, j \in 1..Len(ret) :
            i < j => ScoreGE(ret[i]["similarity_score"], ret[j]["similarity_score"])

\* two vector-scored results of different scores
C10_Witness ==
    /\ IsSearch
    /\ path = "vector"
    /\ Len(ret) >= 2
    /\ ScoreGT(ret[1]["similarity_score"], ret[2]["similarity_score"])

\* C4: when load returns false, the in-memory vector index, record store
\* and position map are what they were before the call.
C4_FailedLoadChangesNothing ==
    [][(call'.op = "load" /\ ret' = FALSE) => UNCHANGED store]_vars

\* the positions of the stored records that satisfy the filter of call c
Matching(c) == {p \in 0..(Len(jobs) - 1) : FilterFn(c.filter, jobs[p + 1])}

\* position p comes before position q in descending order of score
Nearer(c, p, q) ==
    LET d(x) == Dist(index[x + 1], Embed(c.query))
    IN d(p) < d(q) \/ (d(p) = d(q) /\ p < q)

\* the r-th position of the set S in descending order of score
NthNearest(c, S, r) ==
    CHOOSE p \in S : Cardinality({q \in S : Nearer(c, q, p)}) = r - 1

\* the vector-scored results of the call c over the candidate positions S:
\* the first k in descending order of score
VectorScored(c, S) ==
    [r \in 1..Min(c.k, Cardinality(S)) |->
        LET p == NthNearest(c, S, r)
        IN SetKey(jobs[p + 1], "similarity_score",
                  <<1, 1 + Dist(index[p + 1], Embed(c.query))>>)]

\* C9 as claimed: when the embedding succeeds, a filtered search scans the
\* whole store in descending score order and returns exactly min(k, number
\* of stored records satisfying the filter) vector-scored results.
C9_ScansWholeStore ==
    (IsSearch /\ call.filter.kind # "none" /\ call.embed_ok /\ call.k >= 1) =>
        IF Matching(call) = {} THEN path # "vector"
        ELSE path = "vector" /\ ret = VectorScored(call, Matching(call))

\* C9 as amended: the scan covers the min(5k, n) highest-scoring records
\* only; the search returns, vector-scored and in descending order, the
\* first min(k, m) of the m candidates that satisfy the filter, and falls
\* back to the keyword scorer when m = 0.
C9_ScansCandidates ==
    (IsSearch /\ call.filter.kind # "none" /\ call.embed_ok /\ call.k >= 1) =>
        LET n == Len(jobs)
            width == Min(5 * call.k, n)
            candidates ==
                {p \in 0..(n - 1) :
                    Cardinality({q \in 0..(n - 1) : Nearer(call, q, p)}) < width}
            matching == candidates \cap Matching(call)
        IN IF matching = {} THEN path # "vector"
           ELSE path = "vector" /\ ret = VectorScored(call, matching)

\* a store larger than the scan is wide, where the nearest record fails
\* the filter and is skipped for a later one
C9_Witness ==
    /\ IsSearch
    /\ call.filter.kind # "none"
    /\ call.embed_ok
    /\ call.k >= 1
    /\ Len(jobs) > 5 * call.k
    /\ path = "vector"
    /\ Len(ret) = call.k
    /\ NthNearest(call, 0..(Len(jobs) - 1), 1) \notin Matching(call)

\* C3: for every list L and every min_results with len(L) > min_results,
\* remove_duplicate_jobs returns at least min(min_results, len(L)) records.
C3_DedupMinimum ==
    (call.op = "remove_duplicate_jobs" /\ Len(call.jobs) > call.min_results) =>
        Len(ret) >= Min(call.min_results, Len(call.jobs))

\* C2: a request without filters, with limit >= 1, on a store of at least
\* limit records returns exactly limit jobs, with or without the removal
\* of duplicates.
C2_PipelineCount ==
    (/\ call.op = "search_jobs"
     /\ call.request \in {TrivialRequest(call.request.query, call.request.limit,
                                         call.request.remove_duplicates,
                                         call.request.sort_by_date)}
     /\ call.request.limit >= 1
     /\ Len(jobs) >= call.request.limit) =>
        Len(ret) = call.request.limit

\* C11: for every k >= 0, a search (plain, remote, Morocco or keyword)
\* returns at most k results, whichever path produced them: the vector
\* scan, the keyword fallback or the random last resort.
C11_AtMostK ==
    (IsSearch /\ call.k >= 0) => Len(ret) <= call.k

\* a keyword fallback that had more scored records than k and returned k
C11_Witness ==
    /\ IsSearch
    /\ call.k >= 1
    /\ path = "keyword"
    /\ Len(ret) = call.k
    /\ Len(KeywordMatches(call)) > call.k

\* the results of every search of the bounded calls on the store self, for
\* either outcome of the embedding; the last resort is a random sample, so
\* its results are compared as the set of its possible outcomes
AllResults(self) ==
    [query \in Queries, k \in 0..MaxK, embed_ok \in BOOLEAN |->
        {SearchSimilarJobs(self, query, k, NoFilter, embed_ok, rnd) :
            rnd \in SamplesFor(self, query, k, NoFilter, embed_ok)}]

IsDedupe == call.op = "remove_duplicate_jobs"

\* C13: the removal of duplicates is idempotent: for every list L and every
\* m, dedupe(dedupe(L, m), m) = dedupe(L, m), also on the inputs where the
\* re-admission of excluded records fires.
C13_Idempotent ==
    IsDedupe => RemoveDuplicateJobs(ret, call.min_results) = ret

\* C14: a list of at most min_results records is returned unchanged, the
\* same records in the same order, even when it contains duplicates: three
\* records whose first two are duplicates come back as all three when
\* min_results is 3.
C14_ShortListUnchanged ==
    (IsDedupe /\ Len(call.jobs) <= call.min_results) => ret = call.jobs

\* three records whose first two are duplicates, min_results 3
C14_Witness ==
    /\ IsDedupe
    /\ call.min_results = 3
    /\ Len(call.jobs) = 3
    /\ IsDuplicateJob(call.jobs[2], call.jobs[1])
    /\ ret = call.jobs

\* the first-seen-wins pass alone: the loop of remove_duplicate_jobs
\* without the re-admission, from position i of js on
RECURSIVE FirstSeen(_, _, _)
FirstSeen(js, i, unique_jobs) ==
    IF i > Len(js) THEN unique_jobs
    ELSE FirstSeen(js, i + 1,
                   IF \E e \in 1..Len(unique_jobs) :
                          IsDuplicateJob(js[i], unique_jobs[e])
                   THEN unique_jobs
                   ELSE Append(unique_jobs, js[i]))

\* no two records of the list are duplicates of each other
NoDuplicates(list) ==
    \A a, b \in 1..Len(list) :
        a # b => ~IsDuplicateJob(list[a], list[b])

\* C18: excluded records are re-admitted only when the records actually
\* removed as duplicates exceed 70% of the input and the output is below
\* min_results; records not yet examined do not count as removed. So for
\* len(L) > min_results, whenever the first-seen-wins pass alone accepts
\* at least min_results records, the output is exactly those records and
\* holds no two records that are duplicates of each other.
C18_ReadmitOnlyRemoved ==
    (/\ IsDedupe
     /\ Len(call.jobs) > call.min_results
     /\ Len(FirstSeen(call.jobs, 1, <<>>)) >= call.min_results) =>
        /\ ret = FirstSeen(call.jobs, 1, <<>>)
        /\ NoDuplicates(ret)

\* C19: the removal is first-seen-wins: for an input L longer than
\* min_results the first record of L is in the output, and whenever a
\* record of L is absent from the output, a record at an earlier position
\* of L of which it is a duplicate (or to which it is equal) is in the
\* output. Records are compared with the accepted ones only: a record that
\* is a duplicate of no record of the output is in the output, whatever
\* rejected records it duplicates.
C19_FirstSeenWins ==
    (IsDedupe /\ Len(call.jobs) > call.min_results) =>
        /\ InList(call.jobs[1], ret)
        /\ \A q \in 1..Len(call.jobs) :
              (\A e \in 1..Len(ret) : ~IsDuplicateJob(call.jobs[q], ret[e]))
                  => InList(call.jobs[q], ret)
        /\ \A q \in 1..Len(call.jobs) :
              \/ InList(call.jobs[q], ret)
              \/ \E p \in 1..(q - 1) :
                    /\ InList(call.jobs[p], ret)
                    /\ \/ IsDuplicateJob(call.jobs[q], call.jobs[p])
                       \/ call.jobs[q] = call.jobs[p]

\* a record that is not equal to the first one was dropped as its duplicate
C19_Witness ==
    /\ IsDedupe
    /\ Len(call.jobs) > call.min_results
    /\ \E q \in 2..Len(call.jobs) :
          /\ ~InList(call.jobs[q], ret)
          /\ IsDuplicateJob(call.jobs[q], call.jobs[1])

\* rule (a): both redirect URLs are non-empty and identical
RuleUrl(r1, r2) ==
    /\ LowerField(r1, "redirect_url") # <<>>
    /\ LowerField(r1, "redirect_url") = LowerField(r2, "redirect_url")

\* rule (b): title ratio >= 0.95 and company ratio >= 0.95
RuleTitleCompany(r1, r2) ==
    /\ ScoreGE(SequenceRatio(LowerField(r1, "title"), LowerField(r2, "title")),
               <<95, 100>>)
    /\ ScoreGE(SequenceRatio(LowerField(r1, "company"),
                             LowerField(r2, "company")),
               <<95, 100>>)

\* rule (c): title ratio = 1.0 and the locations are identical and non-empty
RuleTitleLocation(r1, r2) ==
    /\ ScoreGE(SequenceRatio(LowerField(r1, "title"), LowerField(r2, "title")),
               <<1, 1>>)
    /\ LowerField(r1, "location") # <<>>
    /\ LowerField(r1, "location") = LowerField(r2, "location")

\* C17: is_duplicate(r1, r2) is true exactly when (a) both redirect URLs
\* are non-empty and identical, or (b) the title ratio and the company
\* ratio are both at least 0.95, or (c) the title ratio is 1.0 and the
\* locations are identical and non-empty; rule (a) alone makes two records
\* duplicates, also when a title or a company is missing or empty.
C17_DuplicateRules ==
    (call.op = "is_duplicate_job") =>
        (ret <=> \/ RuleUrl(call.job1, call.job2)
                 \/ RuleTitleCompany(call.job1, call.job2)
                 \/ RuleTitleLocation(call.job1, call.job2))

IsRequest == call.op = "search_jobs"

\* C15: a request to the pipeline leaves the record store unchanged: after
\* any request, with any filters and flags and on any path (fallback on
\* empty, filter fallback and widening included), every stored record has
\* exactly the fields and values it had before; inferred contract types,
\* synthetic creation dates and forced labels go to copies only and are
\* never visible to a later request.
C15_StoreUnchanged ==
    [][call'.op = "search_jobs" => jobs' = jobs]_vars

\* C16: for limit >= 1 and a non-empty record store the pipeline returns a
\* non-empty list of results for every combination of filters and flags,
\* also without the removal of duplicates and with filters that match no
\* record; the list is empty only when the store is empty and no
\* synthetic sample is available.
C16_NeverEmpty ==
    (IsRequest /\ call.request.limit >= 1 /\ jobs # <<>>) => ret # <<>>

\* the working list just before the filter on the contract type
BeforeTypeFilter(req, cells) ==
    IF req.location # <<>>
    THEN SelectSeq(cells,
             LAMBDA c : Contains(Lower(Get(c.job, "location", <<>>)),
                                 Lower(req.location)))
    ELSE cells

\* the working list just after it
AfterTypeFilter(req, cells) ==
    SelectSeq(BeforeTypeFilter(req, cells),
        LAMBDA c : Contains(Lower(Get(c.job, "job_type", <<>>)),
                            Lower(req.job_type)))

\* the candidates of the request req on the store self on which the filter
\* on the contract type alone empties the working list
EmptiedByType(self, req) ==
    {r \in SearchOutcomes(self, req.query, req.limit * 5, FirstFilter(req)) :
        /\ req.job_type # <<>>
        /\ BeforeTypeFilter(req, Candidates(self, req, r).cells) # <<>>
        /\ AfterTypeFilter(req, Candidates(self, req, r).cells) = <<>>}

\* C20: the filter fallback fires if and only if the filter on the
\* contract type alone reduces the candidates to nothing (some were left
\* just before it, none just after); it does not fire when the location,
\* the minimum salary or the engineering field emptied the list. When it
\* fires, every result carries the requested contract type and the
\* inferred marker.
C20_FilterFallback ==
    [][call'.op = "search_jobs" =>
         /\ ("filter_fallback" \in path') =>
                EmptiedByType(Self, call'.request) # {}
         /\ (/\ EmptiedByType(Self, call'.request) # {}
             /\ EmptiedByType(Self, call'.request) =
                  SearchOutcomes(Self, call'.request.query,
                                 call'.request.limit * 5,
                                 FirstFilter(call'.request))) =>
                "filter_fallback" \in path'
         /\ ("filter_fallback" \in path') =>
                \A n \in 1..Len(ret') :
                    /\ ret'[n].jobType = call'.request.job_type
                    /\ ret'[n].inferredType]_vars

\* the working lists that reach the recency filter of the request req on
\* the store self
BeforeRecency(self, req) ==
    UNION {Dated(req, f) :
        f \in UNION {Filtered(self, req, Candidates(self, req, r)) :
                 r \in SearchOutcomes(self, req.query, req.limit * 5,
                                      FirstFilter(req))}}

\* the test of the recency filter: the job stays
Fresh(req, job) == Get(job, "_parsed_date", Y1970) >= Now - req.recent_hours

\* the creation date of the job can be parsed and lies inside the window
CreatedInWindow(req, job) ==
    /\ Get(job, "created", NoDate) # NoDate
    /\ ParseDate(job["created"]).parsed
    /\ ParseDate(job["created"]).date >= Now - req.recent_hours

\* C21: before the recency filter every candidate has an assigned date
\* (its parseable creation date or a synthesized one), whether or not the
\* sort by date was requested; with a maximum age the filter drops a
\* candidate exactly when its assigned date is older than now minus that
\* age, so a candidate whose parseable creation date lies inside the
\* window is never dropped.
C21_DatedBeforeWindow ==
    [][(call'.op = "search_jobs" /\ call'.request.recent_hours > 0) =>
          \A st \in BeforeRecency(Self, call'.request) :
              \A i \in 1..Len(st.results) :
                  /\ "_parsed_date" \in DOMAIN st.results[i]
                  /\ CreatedInWindow(call'.request, st.results[i])
                        => Fresh(call'.request, st.results[i])]_vars

\* C22: among the candidates without a creation date the more relevant
\* get the more recent synthetic dates: for two of them at positions
\* i < j of the relevance order and any jitter in 0..3, the date given to
\* i (min(i, 59) + jitter days before now) is not older than the date
\* given to j.
C22_RelevantIsNewer ==
    (call.op = "assign_dates" /\ call.i < call.j) => ret[1] >= ret[2]

\* the candidates of the working list st that survive the recency filter
Survivors(req, st) == SelectSeq(st.results, LAMBDA job : Fresh(req, job))

\* the widening left the list t of the working list st as the claim says:
\* the survivors first, then entries whose ids differ from each other and
\* from the survivors', and limit entries in all when the store has that
\* many records
Widened(self, req, st, t) ==
    LET kept == Survivors(req, st)
        n == Len(kept)
    IN /\ Len(t.results) >= n
       /\ Take(t.results, n) = kept
       /\ \A a \in (n + 1)..Len(t.results) :
             \A b \in 1..Len(t.results) :
                 a # b => Get(t.results[a], "id", <<>>)
                              # Get(t.results[b], "id", <<>>)
       /\ Len(self.jobs) >= req.limit => Len(t.results) = req.limit

\* C23: the widening triggers exactly when fewer than min(limit, 5)
\* candidates survive the recency filter and at least one was dropped; it
\* appends the re-fetched candidates that are not in the list by id until
\* the list holds limit entries or they are exhausted. So after a
\* widening the list holds limit entries whenever the store holds at least
\* limit records, and no entry added shares its id with another added
\* entry or with a survivor.
C23_Widening ==
    [][(call'.op = "search_jobs" /\ call'.request.recent_hours > 0) =>
          \A st \in BeforeRecency(Self, call'.request) :
              \A t \in Recent(Self, call'.request, st) :
                  /\ ("widening" \in t.stages) <=>
                        /\ Len(Survivors(call'.request, st))
                              < Min(call'.request.limit, 5)
                        /\ Len(Survivors(call'.request, st)) < Len(st.results)
                  /\ ("widening" \in t.stages) =>
                        Widened(Self, call'.request, st, t)]_vars

BetweenUpdates(position) ==
    position \in {"index_add", "jobs_extend", "pickle_load", "assign_map"}

\* C25: add_batch and load never interleave with a read: no search runs
\* between the updates add_batch makes to the position map, the index and
\* the record store, or between the replacement of the index by load and
\* that of the records and the position map, so every search finds the
\* three structures at one size and from one snapshot.
C25_NoInterleaving ==
    ret.op = "search" =>
        /\ ~BetweenUpdates(ret.before)
        /\ ret.found.ntotal = ret.found.records
        /\ ret.found.records = ret.found.positions
        /\ ret.found.aligned

\* the store has one vector per record, at the position the position map
\* gives
OneVectorPerRecord ==
    /\ Len(index) = Len(jobs)
    /\ DOMAIN job_ids_map = 0..(Len(jobs) - 1)
    /\ \A i \in 0..(Len(index) - 1) : AlignedAt(Self, i)

\* C26: after the initialization of the store of the API server, on every
\* branch (snapshot loaded, snapshot missing, load error, store without
\* records filled with sample records), the serving store holds one
\* indexed vector per record: index size = record count = position-map
\* size, position i of the index belonging to record position_map[i].
C26_StartupAligned ==
    path \in {"imported", "serving"} => OneVectorPerRecord

\* a marker of the category at position t of ContractMarkers occurs in text
MarkerIn(t, text) ==
    \E m \in ContractMarkers[t].markers : Contains(Lower(text), m)

\* the categories with a marker in the description or in the title of job
Marked(job) ==
    {t \in 1..Len(ContractMarkers) :
        \/ MarkerIn(t, Get(job, "description", <<>>))
        \/ MarkerIn(t, Get(job, "title", <<>>))}

\* C27: for a candidate without a contract type the inferred type is the
\* first category, in the order permanent, fixed-term, internship,
\* freelance, part-time, with a marker in the description or in the title,
\* and permanent only by default when no marker occurs in either; a
\* candidate that has a contract type keeps it.
C27_FieldInference ==
    call.op = "enrich" =>
        IF Get(call.job, "job_type", <<>>) # <<>>
        THEN ret = call.job
        ELSE /\ ret = SetKey(call.job, "job_type", ret.job_type)
             /\ \A t \in Marked(call.job) :
                    (\A u \in Marked(call.job) : t <= u) =>
                        ret.job_type = ContractMarkers[t].job_type
             /\ Marked(call.job) = {} => ret.job_type = <<"C", "D", "I">>

\* the number of positions of list that hold job
Occurrences(job, list) == Cardinality({i \in 1..Len(list) : list[i] = job})

\* out, from position i on, is found in list from position j on, in order
RECURSIVE FoundInOrder(_, _, _, _)
FoundInOrder(out, i, list, j) ==
    IF i > Len(out) THEN TRUE
    ELSE IF j > Len(list) THEN FALSE
    ELSE IF out[i] = list[j] THEN FoundInOrder(out, i + 1, list, j + 1)
    ELSE FoundInOrder(out, i, list, j + 1)

\* C28: the output of remove_duplicate_jobs holds only records of the
\* input, each at most as many times as the input holds it, in the order
\* of the input, so it is no longer than the input; for every input and
\* every min_results, re-admission and records without title or company
\* included.
C28_OutputWithinInput ==
    IsDedupe =>
        /\ \A k \in 1..Len(ret) :
              /\ Occurrences(ret[k], call.jobs) >= 1
              /\ Occurrences(ret[k], ret) <= Occurrences(ret[k], call.jobs)
        /\ FoundInOrder(ret, 1, call.jobs, 1)
        /\ Len(ret) <= Len(call.jobs)

\* C29: whenever load returns true, the index and the records and position
\* map it loaded were written by the same save, so the loaded store has
\* index size = record count = position-map size; after any sequence of
\* add_batch and save, a save included that returned false after it wrote
\* the index artifact over an older snapshot.
C29_LoadedTogether ==
    (call.op \in {"load", "new_load"} /\ ret = TRUE) =>
        /\ Len(index) = Len(jobs)
        /\ Cardinality(DOMAIN job_ids_map) = Len(jobs)
        /\ \A i \in 0..(Len(index) - 1) : AlignedAt(Self, i)

\* the formatted job r satisfies the filters that req asks for, the
\* contract type apart
SatisfiesHardFilters(req, r) ==
    /\ req.location # <<>> =>
          Contains(Lower(r.location), Lower(req.location))
    /\ req.min_salary > 0 => r.salaryMin >= req.min_salary
    /\ req.engineering_field # <<>> =>
          \/ Contains(Lower(r.category), Lower(req.engineering_field))
          \/ Contains(Lower(r.title), Lower(req.engineering_field))
    /\ req.remote => r.remote \/ Contains(Lower(r.location), S_remote)

\* C30: every result the pipeline returns satisfies every hard filter of
\* the request (location, minimum salary, engineering field, remote only)
\* on every path: the records taken from the store when the search finds
\* nothing, the filter fallback, the widening, the top-up and the sample
\* jobs included; only the contract type may be a forced label.
C30_HardFiltersHold ==
    IsRequest =>
        \A n \in 1..Len(ret) : SatisfiesHardFilters(call.request, ret[n])

====
